---- MODULE Spec2Model ----
(***************************************************************************)
(* Web Push pipeline of visitaflow: the push_subscriptions table, the      *)
(* POST /api/push/subscribe handler, and the two senders (the guarded      *)
(* POST /api/push/send endpoint and sendPushNotificationServer).           *)
(*                                                                         *)
(* Every await of a handler is an interleaving point: a handler is a       *)
(* process whose pc names the await it is suspended at.  Calls to the      *)
(* data store resolve with {data, error} and never throw, as supabase-js   *)
(* does; a data-store fault is the nondeterministic outcome "fail" of the  *)
(* call.  created_at / updated_at are not part of any decision the         *)
(* handlers take and are left out of the records.                          *)
(*                                                                         *)
(* The page's client library (permission, platform subscription, the POST  *)
(* that persists it) and the service worker's fetch listener are modelled  *)
(* the same way; platform calls that may reject are nondeterministic.      *)
(***************************************************************************)
EXTENDS Integers, FiniteSets, Sequences, TLC

\* ---------------------------------------------------------------- bounds
NumReqs == 2            \* subscribe requests that may be in flight
NumSends == 1           \* send() invocations that may be in flight
MaxRecords == 2         \* rows ever inserted (ids handed out by the table)
NumEvents == 2          \* fetch events, and push events, the worker handles
MaxKeyLen == 4          \* characters of a key string
NumLoads == 2           \* loadVisitas calls of the dashboard
MaxChanges == 2         \* changes of the visits table

Reqs == 1..NumReqs
Sends == 1..NumSends
Ids == 1..MaxRecords
Events == 1..NumEvents
Loads == 1..NumLoads

Users == {"u1", "u2"}
Endpoints == {"e1", "e2"}
P256Keys == {"k1", "k2"}
AuthKeys == {"a1", "a2"}
\* the key material of one platform subscription: both keys are fresh together
KeyPairs == {<<"k1", "a1">>, <<"k2", "a2">>}

None == "none"          \* null / undefined
Missing == ""           \* a falsy body field (absent or empty string)
BadToken == "bad"       \* a non-empty string that is not a valid access token
Absent == -1            \* a numeric field that the response does not carry
NoId == 0               \* no row

\* ----------------------------------------------------------------- state
VARIABLES
    store,              \* push_subscriptions: set of rows
    nextId,             \* rows inserted so far (gen_random_uuid is fresh)
    sub,                \* sub[r]: one POST /api/push/subscribe request
    vapidConfigured,    \* VAPID_PUBLIC_KEY and VAPID_PRIVATE_KEY are set
    serviceKeyConfigured, \* SUPABASE_SERVICE_ROLE_KEY is set
    snd,                \* snd[s]: one send (endpoint or library function)
    obs,                \* obs[r]: what request r carried and met (history)
    browser,            \* the platform: support, permission, subscription, session
    cli,                \* the call of the client library that is under way
    sw,                 \* the service worker: its state and the origin's caches
    fev,                \* fev[e]: one fetch event of the service worker
    pev,                \* pev[e]: one push event of the service worker
    clk,                \* the notificationclick event under way
    codec,              \* the key string being decoded and encoded again
    ui,                 \* the state of PushNotificationManager
    dash                \* the dashboard: the visits table, the list in state, the loadVisitas calls

vars == <<store, nextId, sub, vapidConfigured, serviceKeyConfigured, snd,
          obs, browser, cli, sw, fev, pev, clk, codec, ui, dash>>

\* ------------------------------------------------- push_subscriptions table
\* a table that files every row under one user
RowOfFirstUser(id, u, e, k, a) ==
    [id |-> id, user_id |-> "u1", endpoint |-> e, p256dh |-> k, auth |-> a]

Row(id, u, e, k, a) == [id |-> id, user_id |-> u, endpoint |-> e, p256dh |-> k, auth |-> a]

\* a table without the UNIQUE constraint
UniqueViolationOff(rows, u, e) == FALSE

\* UNIQUE(user_id, endpoint): would a new row (u, e) collide with a stored one
UniqueViolation(rows, u, e) == \E x \in rows : x.user_id = u /\ x.endpoint = e

\* Row level security: the rows the holder of access token tok may see / change.
\* An invalid token is rejected by the data store (no rows, an error).
TokenValid(tok) == tok \in Users
Visible(rows, tok) == {x \in rows : x.user_id = tok}

\* .select('id').eq('user_id', u).eq('endpoint', e).single()
\* -> the id of the one matching row, or NoId (data: null) on an error,
\*    on zero rows and on more than one row
SelectSingle(rows, tok, u, e, fail) ==
    LET hit == {x \in Visible(rows, tok) : x.user_id = u /\ x.endpoint = e}
    IN  IF fail \/ ~TokenValid(tok) \/ Cardinality(hit) # 1
        THEN NoId
        ELSE (CHOOSE x \in hit : TRUE).id

\* an update that touches the row but leaves the stored key material
UpdateRowsStale(rows, id, u, e, k, a) ==
    {IF x.id = id THEN Row(x.id, u, e, x.p256dh, x.auth) ELSE x : x \in rows}

\* .update(data).eq('id', id).select().single(): the updated table, and whether
\* the call reported an error (fault, rejected token, or no row returned)
UpdateRows(rows, id, u, e, k, a) ==
    {IF x.id = id THEN Row(x.id, u, e, k, a) ELSE x : x \in rows}

UpdateOk(rows, tok, id, fail) ==
    /\ ~fail
    /\ TokenValid(tok)
    /\ \E x \in Visible(rows, tok) : x.id = id

\* .insert(data).select().single(): WITH CHECK (auth.uid() = user_id) and the
\* UNIQUE constraint decide whether the row is accepted
InsertOk(rows, tok, u, e, fail) ==
    /\ ~fail
    /\ TokenValid(tok)
    /\ tok = u
    /\ ~UniqueViolation(rows, u, e)

\* .delete().eq('id', id) through the service-role client (bypasses RLS)
DeleteRows(rows, id) == {x \in rows : x.id # id}

\* ------------------------------------------------ POST /api/push/subscribe
\* accessToken = authHeader?.replace('Bearer ', '')
\* A header is absent, or "Bearer " + token, or token alone.
NoHeader == [present |-> FALSE, bearer |-> FALSE, token |-> Missing]
Headers == {NoHeader} \cup
           [present : {TRUE}, bearer : BOOLEAN, token : {Missing, BadToken} \cup Users]

AccessToken(h) == IF ~h.present THEN Missing ELSE h.token

\* a getServerUser that answers some user when every lookup has failed
GetServerUserDefault(h, session, cookieTok, directUser) ==
    IF h.present /\ h.bearer /\ h.token \in Users THEN h.token
    ELSE IF session # None THEN session
    ELSE IF cookieTok \in Users THEN cookieTok
    ELSE IF directUser # None THEN directUser
    ELSE "u1"

\* getServerUser: the bearer token first, then the cookie session, then the
\* access token found in the cookies, then getUser() with no argument.
\* session, cookieUser, directUser are what the identity provider answers.
GetServerUser(h, session, cookieTok, directUser) ==
    IF h.present /\ h.bearer /\ h.token \in Users THEN h.token
    ELSE IF session # None THEN session
    ELSE IF cookieTok \in Users THEN cookieTok
    ELSE IF directUser # None THEN directUser
    ELSE None

\* Whether the request carries any credential the identity provider accepts
HasCredential(h, session, cookieTok, directUser) ==
    \/ h.present /\ h.token \in Users
    \/ session \in Users
    \/ cookieTok \in Users
    \/ directUser \in Users

\* What the handler learns from the credentials of a request: the access
\* token it will hand to the data store and the user getServerUser answers,
\* for every header and every answer of the identity provider
SubscribeCredentials ==
    {[token |-> AccessToken(h),
      user |-> GetServerUser(h, session, cookieTok, directUser),
      hasCred |-> HasCredential(h, session, cookieTok, directUser)] :
        h \in Headers, session \in Users \cup {None},
        cookieTok \in Users \cup {None, BadToken}, directUser \in Users \cup {None}}

\* The bodies a request may carry: any field may be missing
Bodies == {[endpoint |-> e, p256dh |-> kp[1], auth |-> kp[2]] :
              e \in Endpoints, kp \in KeyPairs}
          \cup {[endpoint |-> Missing, p256dh |-> "k1", auth |-> "a1"],
                [endpoint |-> "e1", p256dh |-> Missing, auth |-> "a1"],
                [endpoint |-> "e1", p256dh |-> "k1", auth |-> Missing]}

\* The locals of one request (token .. existing), the response status, and
\* three observations about the request: dbOps, the data-store calls it has
\* issued; hasCred, whether it carried a valid credential; rekeyed, whether
\* its update replaced different key material.
SubInit == [pc |-> "idle", token |-> Missing, user |-> None,
            endpoint |-> Missing, p256dh |-> Missing, auth |-> Missing,
            existing |-> NoId, status |-> 0,
            dbOps |-> 0, hasCred |-> FALSE, rekeyed |-> FALSE]

\* return NextResponse.json(..., {status}): the locals are gone
Respond(q, status) ==
    [SubInit EXCEPT !.pc = "done", !.status = status,
                    !.dbOps = q.dbOps, !.hasCred = q.hasCred, !.rekeyed = q.rekeyed]

\* a handler that validates the endpoint only
SubEntryEndpointOnly(c, parses, b) ==
    LET q == [SubInit EXCEPT !.hasCred = c.hasCred]
    IN  IF c.token = Missing \/ c.user = None THEN Respond(q, 401)
        ELSE IF ~parses THEN Respond(q, 500)
        ELSE IF b.endpoint = Missing THEN Respond(q, 400)
        ELSE [q EXCEPT !.pc = "lookup", !.token = c.token, !.user = c.user,
                       !.endpoint = b.endpoint, !.p256dh = b.p256dh, !.auth = b.auth]

\* lines 17-49: everything up to the first data-store call.  401 when there is
\* no access token or getServerUser finds no user; request.json() throws on a
\* malformed body (500, by the catch); 400 when a field is missing.
SubEntry(c, parses, b) ==
    LET q == [SubInit EXCEPT !.hasCred = c.hasCred]
    IN  IF c.token = Missing \/ c.user = None THEN Respond(q, 401)
        ELSE IF ~parses THEN Respond(q, 500)
        ELSE IF b.endpoint = Missing \/ b.p256dh = Missing \/ b.auth = Missing THEN
            Respond(q, 400)
        ELSE [q EXCEPT !.pc = "lookup", !.token = c.token, !.user = c.user,
                       !.endpoint = b.endpoint, !.p256dh = b.p256dh, !.auth = b.auth]

\* where a request stands after lines 17-49, for every request
SubEntries ==
    {SubEntry(c, parses, b) : c \in SubscribeCredentials, parses \in BOOLEAN, b \in Bodies}

SubStart(r) ==
    /\ sub[r].pc = "idle"
    /\ \E q \in SubEntries : sub' = [sub EXCEPT ![r] = q]
    /\ UNCHANGED <<store, nextId, vapidConfigured, serviceKeyConfigured, snd>>

\* lines 52-57: the lookup; its error is not inspected, only data
SubLookup(r) ==
    /\ sub[r].pc = "lookup"
    /\ \E fail \in BOOLEAN :
         sub' = [sub EXCEPT ![r].pc = "write", ![r].dbOps = @ + 1,
                   ![r].existing = SelectSingle(store, sub[r].token, sub[r].user,
                                                sub[r].endpoint, fail)]
    /\ UNCHANGED <<store, nextId, vapidConfigured, serviceKeyConfigured, snd>>

\* lines 69-79 and 92-107: update the row found by the lookup
SubUpdate(r) ==
    /\ sub[r].pc = "write"
    /\ sub[r].existing # NoId
    /\ \E fail \in BOOLEAN :
         IF UpdateOk(store, sub[r].token, sub[r].existing, fail)
         THEN LET q == [sub[r] EXCEPT !.dbOps = @ + 1,
                          !.rekeyed = \E x \in store :
                                         /\ x.id = sub[r].existing
                                         /\ <<x.p256dh, x.auth>> # <<sub[r].p256dh, sub[r].auth>>]
              IN  /\ store' = UpdateRows(store, q.existing, q.user, q.endpoint,
                                         q.p256dh, q.auth)
                  /\ sub' = [sub EXCEPT ![r] = Respond(q, 200)]
         ELSE /\ store' = store
              /\ sub' = [sub EXCEPT ![r] = Respond([sub[r] EXCEPT !.dbOps = @ + 1], 500)]
    /\ UNCHANGED <<nextId, vapidConfigured, serviceKeyConfigured, snd>>

\* lines 80-107: insert a new row
SubInsert(r) ==
    /\ sub[r].pc = "write"
    /\ sub[r].existing = NoId
    /\ LET q == [sub[r] EXCEPT !.dbOps = @ + 1]
       IN  \E fail \in BOOLEAN :
             IF InsertOk(store, q.token, q.user, q.endpoint, fail)
             THEN /\ nextId < MaxRecords
                  /\ store' = store \cup {Row(nextId + 1, q.user, q.endpoint, q.p256dh, q.auth)}
                  /\ nextId' = nextId + 1
                  /\ sub' = [sub EXCEPT ![r] = Respond(q, 200)]
             ELSE /\ UNCHANGED <<store, nextId>>
                  /\ sub' = [sub EXCEPT ![r] = Respond(q, 500)]
    /\ UNCHANGED <<vapidConfigured, serviceKeyConfigured, snd>>

\* ------------------------------- POST /api/push/send and the library sender
Vias == {"endpoint", "lib"}
SecretHeaders == {"missing", "wrong", "right"}      \* x-internal-secret
Outcomes == {"ok", "gone410", "error"}              \* of one gateway call

\* a guard that only rejects a missing header
SecretMismatchMissingOnly(hdr) == hdr = "missing"

\* internalSecretHeader !== internalSecret (the secret is never empty)
SecretMismatch(hdr) == hdr # "right"

\* A result: the HTTP status (0 for the library function, which has none) and
\* the fields of the body; a field the body does not carry is "absent"/Absent.
Result(status, success, sent, failed, total) ==
    [status |-> status, success |-> success, sent |-> sent, failed |-> failed,
     total |-> total]

NoResult == Result(0, "absent", Absent, Absent, Absent)

\* an error answer: {message} with a status, or {success: false, sent: 0, failed: 0, error}
ErrorResult(via, status) ==
    IF via = "endpoint" THEN Result(status, "absent", Absent, Absent, Absent)
    ELSE Result(0, "false", 0, 0, Absent)

\* "nobody to notify" answered as an error
EmptyResultAsError(via) ==
    IF via = "endpoint" THEN Result(404, "absent", Absent, Absent, Absent)
    ELSE Result(0, "false", 0, 0, Absent)

\* the answer when no subscription matches
EmptyResult(via) ==
    IF via = "endpoint" THEN Result(200, "absent", 0, Absent, Absent)
    ELSE Result(0, "true", 0, 0, Absent)

\* a count of the fulfilled promises that forgets r.value.success
SuccessfulFulfilled(outcome, ids) == Cardinality(ids)

\* results.filter(r => r.status === 'fulfilled' && r.value.success).length:
\* a callback returns success: true exactly when its gateway call resolved
Successful(outcome, ids) == Cardinality({i \in ids : outcome[i] = "ok"})

\* an endpoint that counts every subscription as failed
CountResultEndpointAllFailed(via, outcome, ids) ==
    LET successful == Successful(outcome, ids)
        failed == Cardinality(ids) - successful
    IN  IF via = "endpoint"
        THEN Result(200, "true", successful, Cardinality(ids), Cardinality(ids))
        ELSE Result(0, "true", successful, failed, Absent)

\* a sender that reports a run that delivered nothing as a failure
CountResultFalseWhenNoneSent(via, outcome, ids) ==
    LET successful == Successful(outcome, ids)
        failed == Cardinality(ids) - successful
        success == IF successful = 0 THEN "false" ELSE "true"
    IN  IF via = "endpoint" THEN Result(200, success, successful, failed, Cardinality(ids))
        ELSE Result(0, success, successful, failed, Absent)

\* the answer after Promise.allSettled
CountResult(via, outcome, ids) ==
    LET successful == Successful(outcome, ids)
        failed == Cardinality(ids) - successful
    IN  IF via = "endpoint" THEN Result(200, "true", successful, failed, Cardinality(ids))
        ELSE Result(0, "true", successful, failed, Absent)

\* a query that drops the user filter
MatchingAll(rows, userId) == rows

\* query.eq('user_id', userId) only when userId is truthy
Matching(rows, userId) ==
    IF userId # Missing THEN {x \in rows : x.user_id = userId} ELSE rows

RowIds(rows) == {x.id : x \in rows}

\* One send.  Locals: via, hdr, userId, matched (the rows the query returned).
\* Per matched row i: task[i], where its callback stands; outcome[i], what the
\* gateway answered; del[i], what the data store answered to the delete
\* (the code discards it); attempts[i], the gateway calls issued for it.
\* queried: what the query answered ("no" query, "error", "empty", "rows").
SendInit == [pc |-> "idle", via |-> "lib", hdr |-> "right", userId |-> Missing,
             queried |-> "no", matched |-> {},
             task |-> [i \in Ids |-> "none"], outcome |-> [i \in Ids |-> "none"],
             del |-> [i \in Ids |-> "none"], attempts |-> [i \in Ids |-> 0],
             res |-> NoResult]

\* return: the locals of the call are gone, the caller holds the answer
Return(q, queried, res) ==
    [SendInit EXCEPT !.pc = "done", !.via = q.via, !.hdr = q.hdr,
                     !.queried = queried, !.res = res]

\* part_003 lines 70-98 / push-send-server.ts lines 48-71: everything up to the
\* query.  The endpoint checks the secret first and parses the body.
\* A call: the sender, the x-internal-secret header (the library function has
\* none to check), whether the body parses, whether it has a title and a body
\* text, and its userId.
SendCalls ==
    {c \in [via : Vias, hdr : SecretHeaders, parses : BOOLEAN, title : BOOLEAN,
            body : BOOLEAN, userId : Users \cup {Missing}] :
        c.via = "lib" => (c.hdr = "right" /\ c.parses)}

SendEntry(c, vapid, serviceKey) ==
    LET q == [SendInit EXCEPT !.via = c.via, !.hdr = c.hdr]
        fail(status) == Return(q, "no", ErrorResult(c.via, status))
    IN  IF c.via = "endpoint" /\ SecretMismatch(c.hdr) THEN fail(401)
        ELSE IF ~vapid THEN fail(500)
        ELSE IF c.via = "endpoint" /\ ~c.parses THEN fail(500)
        ELSE IF ~c.title \/ ~c.body THEN fail(400)
        ELSE IF ~serviceKey THEN fail(500)
        ELSE [q EXCEPT !.pc = "load", !.userId = c.userId]

\* where a call stands before its query, for every call and configuration
SendEntries ==
    [vapid \in BOOLEAN, serviceKey \in BOOLEAN |->
        {SendEntry(c, vapid, serviceKey) : c \in SendCalls}]

SendStart(s) ==
    /\ snd[s].pc = "idle"
    /\ \E q \in SendEntries[vapidConfigured, serviceKeyConfigured] :
         snd' = [snd EXCEPT ![s] = q]
    /\ UNCHANGED <<store, nextId, sub, vapidConfigured, serviceKeyConfigured>>

\* part_003 lines 106-120 / lines 79-91: the query answers
SendLoad(s) ==
    /\ snd[s].pc = "load"
    /\ \E fetchError \in BOOLEAN :
         LET subscriptions == Matching(store, snd[s].userId)
         IN  IF fetchError THEN
                 snd' = [snd EXCEPT ![s] = Return(@, "error", ErrorResult(@.via, 500))]
             ELSE IF subscriptions = {} THEN
                 snd' = [snd EXCEPT ![s] = Return(@, "empty", EmptyResult(@.via))]
             ELSE
                 snd' = [snd EXCEPT ![s].pc = "map", ![s].queried = "rows",
                                    ![s].matched = subscriptions]
    /\ UNCHANGED <<store, nextId, sub, vapidConfigured, serviceKeyConfigured>>

\* a loop that stops after its first subscription
FiredFirstOnly(subscriptions) ==
    {i \in RowIds(subscriptions) : \A j \in RowIds(subscriptions) : i <= j}

\* the subscriptions that subscriptions.map starts a gateway call for
Fired(subscriptions) == RowIds(subscriptions)

\* part_003 lines 136-146 / lines 107-117: subscriptions.map runs every async
\* callback up to its first await, so all gateway calls are issued together
SendMap(s) ==
    /\ snd[s].pc = "map"
    /\ snd' = [snd EXCEPT ![s].pc = "await",
                 ![s].task = [i \in Ids |-> IF i \in Fired(snd[s].matched)
                                            THEN "inflight" ELSE @[i]],
                 ![s].attempts = [i \in Ids |-> IF i \in Fired(snd[s].matched)
                                                THEN @[i] + 1 ELSE @[i]]]
    /\ UNCHANGED <<store, nextId, sub, vapidConfigured, serviceKeyConfigured>>

\* a prune on any failure
IsGoneAnyError(outcome) == outcome # "ok"

\* error.statusCode === 410
IsGone(outcome) == outcome = "gone410"

\* part_003 lines 146-155 / lines 117-126: one gateway call settles; a 410
\* issues the delete and awaits it, anything else ends the callback
GatewaySettle(s, i) ==
    /\ snd[s].pc = "await"
    /\ snd[s].task[i] = "inflight"
    /\ \E outcome \in Outcomes :
         snd' = [snd EXCEPT ![s].outcome[i] = outcome,
                            ![s].task[i] = IF outcome # "ok" /\ IsGone(outcome)
                                           THEN "deleting" ELSE "settled"]
    /\ UNCHANGED <<store, nextId, sub, vapidConfigured, serviceKeyConfigured>>

\* part_003 lines 156-162 / lines 127-137: the delete answers; its error is
\* not inspected
DeleteDone(s, i) ==
    /\ snd[s].pc = "await"
    /\ snd[s].task[i] = "deleting"
    /\ \E fail \in BOOLEAN :
         /\ store' = IF fail THEN store ELSE DeleteRows(store, i)
         /\ snd' = [snd EXCEPT ![s].task[i] = "settled",
                               ![s].del[i] = IF fail THEN "failed" ELSE "ok"]
    /\ UNCHANGED <<nextId, sub, vapidConfigured, serviceKeyConfigured>>

\* a join that resolves as soon as one promise has settled
AllSettledFirst(task, ids) == \E i \in ids : task[i] = "settled"

\* Promise.allSettled(sendPromises) resolves when every promise has settled
AllSettled(task, ids) == \A i \in ids : task[i] = "settled"

\* part_003 lines 166-178 / lines 141-151
SendFinish(s) ==
    /\ snd[s].pc = "await"
    /\ AllSettled(snd[s].task, RowIds(snd[s].matched))
    /\ snd' = [snd EXCEPT ![s] =
                 Return(@, "rows", CountResult(@.via, @.outcome, RowIds(@.matched)))]
    /\ UNCHANGED <<store, nextId, sub, vapidConfigured, serviceKeyConfigured>>

\* ------------------------------------ what a subscribe request carried and met
\* obs[r] remembers, of request r: whether it passed the authentication of
\* lines 17-34, whether its body parsed, whether the body had all of endpoint,
\* p256dh and auth, and which of its data-store calls came back with an error
\* that was not "no row".
NoObs == [seen |-> FALSE, authed |-> FALSE, parses |-> FALSE, complete |-> FALSE,
          faults |-> {}]

ObsInit == [r \in Reqs |-> NoObs]

Observe(c, parses, b) ==
    [seen |-> TRUE,
     authed |-> c.token # Missing /\ c.user # None,
     parses |-> parses,
     complete |-> b.endpoint # Missing /\ b.p256dh # Missing /\ b.auth # Missing,
     faults |-> {}]

\* ------------------------------------------- the client library (in the page)
\* The platform, as the library sees it: whether push is supported, the
\* notification permission, the subscription of the registration (if any), and
\* the access token of the supabase session ("" for no session).
Permissions == {"default", "granted", "denied"}

NoSubscription == [endpoint |-> Missing, p256dh |-> Missing, auth |-> Missing]

PlatformSubscriptions ==
    {[endpoint |-> e, p256dh |-> kp[1], auth |-> kp[2]] : e \in Endpoints, kp \in KeyPairs}

SessionTokens == {Missing, BadToken} \cup Users

IsPushNotificationSupported(b) == b.supported

\* a permission request that prompts whenever permission is not granted
RequestNotificationPermissionEager(b) ==
    IF ~IsPushNotificationSupported(b) THEN "throw-unsupported"
    ELSE IF b.permission = "granted" THEN "granted"
    ELSE "prompt"

\* requestNotificationPermission up to its await: what it does on entry
RequestNotificationPermission(b) ==
    IF ~IsPushNotificationSupported(b) THEN "throw-unsupported"
    ELSE IF b.permission = "granted" THEN "granted"
    ELSE IF b.permission = "denied" THEN "throw-denied"
    ELSE "prompt"

\* hasActiveSubscription; fault: serviceWorker.ready or getSubscription rejects
HasActiveSubscription(b, fault) ==
    IF ~IsPushNotificationSupported(b) THEN FALSE
    ELSE IF fault THEN FALSE
    ELSE b.subscription # NoSubscription

\* One call of the library.  op: the exported function called; pc: the await
\* it is suspended at; data: its subscriptionData / subscription local;
\* result: what it returned ("thrown" when it threw to its caller); error: the
\* reason it gave.  was: the permission when the call was made; prompted,
\* created, posted: whether the call has prompted the user, has obtained a
\* subscription from pushManager.subscribe, has sent its POST.
CliInit == [op |-> "none", pc |-> "idle", data |-> NoSubscription,
            result |-> "none", error |-> None, was |-> "default",
            prompted |-> FALSE, created |-> FALSE, posted |-> FALSE]

Finished(q, result, error) == [q EXCEPT !.pc = "done", !.result = result, !.error = error]

\* a library in which only saveSubscriptionToServer has a catch
CatchesPersistOnly(fn) == fn = "persist"

\* the exported functions whose body is a try / catch that returns
\* {success: false, error}
Catches(fn) == fn \in {"enable", "persist", "disable", "has"}

\* fn, called by the call q (q.op = fn, or enable calling fn), throws
Raise(q, fn, error) ==
    IF Catches(fn) \/ (q.op = "enable" /\ Catches("enable"))
    THEN Finished(q, "fail", error)
    ELSE Finished(q, "thrown", error)

\* lines 311-323 and 422-433: requestNotificationPermission, alone or as the
\* first step of enablePushNotifications, up to the prompt
CallPermission(op) ==
    /\ cli.pc \in {"idle", "done"}
    /\ op \in {"request", "enable"}
    /\ LET q == [CliInit EXCEPT !.op = op, !.was = browser.permission]
           entry == RequestNotificationPermission(browser)
       IN  cli' = IF entry = "throw-unsupported" THEN Raise(q, "request", "unsupported")
                  ELSE IF entry = "throw-denied" THEN Raise(q, "request", "denied")
                  ELSE IF entry = "prompt" THEN [q EXCEPT !.pc = "prompt"]
                  ELSE IF op = "request" THEN Finished(q, "granted", None)
                  ELSE [q EXCEPT !.pc = "subscribe"]
    /\ UNCHANGED <<store, nextId, sub, vapidConfigured, serviceKeyConfigured, snd,
                   obs, browser, sw, fev, pev, clk, codec, ui, dash>>

\* an enable that goes on unless the answer is 'denied'
PermissionGrantedUnlessDenied(permission) == permission # "denied"

\* line 428: permission !== 'granted' ends enablePushNotifications
PermissionGranted(permission) == permission = "granted"

\* lines 325-326 and 428-433: the user answers the prompt (or dismisses it)
PromptAnswer ==
    /\ cli.pc = "prompt"
    /\ \E answer \in Permissions :
         /\ browser' = [browser EXCEPT !.permission = answer]
         /\ LET q == [cli EXCEPT !.prompted = TRUE]
            IN  cli' = IF cli.op = "request" THEN Finished(q, answer, None)
                       ELSE IF ~PermissionGranted(answer) THEN Finished(q, "fail", "not-granted")
                       ELSE [q EXCEPT !.pc = "subscribe"]
    /\ UNCHANGED <<store, nextId, sub, vapidConfigured, serviceKeyConfigured, snd,
                   obs, sw, fev, pev, clk, codec, ui, dash>>

\* lines 334-365: createPushSubscription.  pushManager.subscribe answers the
\* subscription the registration already has, or a new one, or rejects
\* (as do atob on a malformed key and serviceWorker.ready)
CreateSubscription ==
    /\ cli.pc = "subscribe"
    /\ \E ok \in BOOLEAN :
         IF ok
         THEN \E x \in (IF browser.subscription # NoSubscription
                        THEN {browser.subscription} ELSE PlatformSubscriptions) :
                /\ browser' = [browser EXCEPT !.subscription = x]
                /\ cli' = [cli EXCEPT !.pc = "persist", !.data = x, !.created = TRUE]
         ELSE /\ browser' = browser
              /\ cli' = Raise(cli, "create", "subscribe-failed")
    /\ UNCHANGED <<store, nextId, sub, vapidConfigured, serviceKeyConfigured, snd,
                   obs, sw, fev, pev, clk, codec, ui, dash>>

\* saveSubscriptionToServer called by the page for the current subscription
CallPersist ==
    /\ cli.pc \in {"idle", "done"}
    /\ browser.subscription # NoSubscription
    /\ cli' = [CliInit EXCEPT !.op = "persist", !.pc = "persist",
                              !.was = browser.permission, !.data = browser.subscription]
    /\ UNCHANGED <<store, nextId, sub, vapidConfigured, serviceKeyConfigured, snd,
                   obs, browser, sw, fev, pev, clk, codec, ui, dash>>

\* The credentials of the library's POST: Authorization: Bearer <access token>
\* when there is a session, and the cookies
ClientCredentials(token) ==
    {c \in SubscribeCredentials : c.token = token /\ (token \in Users => c.user = token)}

\* a failed save that also drops the platform subscription
PersistThrowsRollsBack ==
    /\ cli.pc = "persist"
    /\ cli' = Raise(cli, "persist", "network")
    /\ browser' = [browser EXCEPT !.subscription = NoSubscription]
    /\ UNCHANGED <<store, nextId, sub, vapidConfigured, serviceKeyConfigured, snd,
                   obs, sw, fev, pev, clk, codec, ui, dash>>

\* lines 375-396: the import, getSession or fetch fails before the request
\* reaches the server
PersistThrows ==
    /\ cli.pc = "persist"
    /\ cli' = Raise(cli, "persist", "network")
    /\ UNCHANGED <<store, nextId, sub, vapidConfigured, serviceKeyConfigured, snd,
                   obs, browser, sw, fev, pev, clk, codec, ui, dash>>

\* lines 382-396: the POST reaches the handler, which runs up to its first
\* data-store call
PersistPost(r) ==
    /\ cli.pc = "persist"
    /\ SubStart(r)
    /\ \E c \in ClientCredentials(browser.session) :
         sub'[r] = SubEntry(c, TRUE, cli.data)
    /\ cli' = [cli EXCEPT !.pc = "posted", !.posted = TRUE]
    /\ UNCHANGED <<obs, browser, sw, fev, pev, clk, codec, ui, dash>>

\* a save that does not look at response.ok
PersistReceiveAnyStatus(r) ==
    /\ cli.pc = "posted"
    /\ sub[r].pc = "done"
    /\ cli' = Finished(cli, "ok", None)
    /\ sub' = [sub EXCEPT ![r] = SubInit]
    /\ UNCHANGED <<store, nextId, vapidConfigured, serviceKeyConfigured, snd,
                   obs, browser, sw, fev, pev, clk, codec, ui, dash>>

\* lines 391-410: the response arrives, or fetch rejects although the handler
\* has answered; either way the exchange is over
PersistReceive(r) ==
    /\ cli.pc = "posted"
    /\ sub[r].pc = "done"
    /\ \E lost \in BOOLEAN :
         cli' = IF lost THEN Raise(cli, "persist", "network")
                ELSE IF sub[r].status = 200 THEN Finished(cli, "ok", None)
                ELSE Raise(cli, "persist", "http-error")
    /\ sub' = [sub EXCEPT ![r] = SubInit]
    /\ UNCHANGED <<store, nextId, vapidConfigured, serviceKeyConfigured, snd,
                   obs, browser, sw, fev, pev, clk, codec, ui, dash>>

\* lines 471-478: disablePushNotifications up to its first await
CallDisable ==
    /\ cli.pc \in {"idle", "done"}
    /\ LET q == [CliInit EXCEPT !.op = "disable", !.was = browser.permission]
       IN  cli' = IF ~IsPushNotificationSupported(browser)
                  THEN Finished(q, "fail", "unsupported")
                  ELSE [q EXCEPT !.pc = "unsubscribe"]
    /\ UNCHANGED <<store, nextId, sub, vapidConfigured, serviceKeyConfigured, snd,
                   obs, browser, sw, fev, pev, clk, codec, ui, dash>>

\* a disable that also deletes the rows stored for the endpoint
UnsubscribeAndDelete ==
    /\ cli.pc = "unsubscribe"
    /\ browser' = [browser EXCEPT !.subscription = NoSubscription]
    /\ cli' = Finished([cli EXCEPT !.data = browser.subscription], "ok", None)
    /\ store' = {x \in store : x.endpoint # browser.subscription.endpoint}
    /\ UNCHANGED <<nextId, sub, vapidConfigured, serviceKeyConfigured, snd,
                   obs, sw, fev, pev, clk, codec, ui, dash>>

\* lines 479-497: getSubscription, and unsubscribe when there is one; any of
\* the platform calls may reject.  Nothing is sent to the server.
Unsubscribe ==
    /\ cli.pc = "unsubscribe"
    /\ \E ok \in BOOLEAN :
         IF ok
         THEN /\ browser' = [browser EXCEPT !.subscription = NoSubscription]
              /\ cli' = Finished([cli EXCEPT !.data = browser.subscription], "ok", None)
         ELSE /\ browser' = browser
              /\ cli' = Raise(cli, "disable", "platform")
    /\ UNCHANGED <<store, nextId, sub, vapidConfigured, serviceKeyConfigured, snd,
                   obs, sw, fev, pev, clk, codec, ui, dash>>

\* lines 453-466: hasActiveSubscription
CallHas ==
    /\ cli.pc \in {"idle", "done"}
    /\ \E fault \in BOOLEAN :
         cli' = Finished([CliInit EXCEPT !.op = "has", !.was = browser.permission],
                         IF HasActiveSubscription(browser, fault) THEN "true" ELSE "false",
                         None)
    /\ UNCHANGED <<store, nextId, sub, vapidConfigured, serviceKeyConfigured, snd,
                   obs, browser, sw, fev, pev, clk, codec, ui, dash>>

\* ---------------------------------------------- the service worker: fetch
CACHE_NAME == "visitaflow-tecnico-v1"
CacheNames == {CACHE_NAME, "visitaflow-tecnico-v0"}
Urls == {"/", "/visitas"}
Methods == {"GET", "POST"}
NetErrors == {"TypeError", "AbortError"}      \* what fetch may reject with

\* sw.cache: the <<cache name, url>> pairs a response is stored for.  The
\* worker handles fetch events once it is activated.
SwStates == {"installed", "activated"}

\* lines 29-38: every cache but CACHE_NAME is deleted
ActivateKeeps(entries) == {x \in entries : x[1] = CACHE_NAME}

\* caches.match(request): a response stored for the URL in any cache
CachesMatch(entries, url) == \E n \in CacheNames : <<n, url>> \in entries

\* a handler that intercepts every request
InterceptsAll(method) == TRUE

\* lines 51-53: only GET requests are answered by the worker
Intercepts(method) == method = "GET"

\* a fallback that answers a miss with an error of its own
CacheFallbackOffline(hit, error) == IF hit THEN "cached-response" ELSE "offline"

\* lines 67-75: the cached response, or the error of the network attempt
CacheFallback(hit, error) == IF hit THEN "cached-response" ELSE error

\* One fetch event.  intercepted: respondWith was called; error: what
\* fetch(event.request) rejected with; answer: what the requester received;
\* lookups: the caches.match calls made for it.
FevInit == [pc |-> "idle", method |-> "GET", url |-> "/", intercepted |-> FALSE,
            error |-> None, answer |-> None, lookups |-> 0]

\* lines 25-46: activation
Activate ==
    /\ sw.state = "installed"
    /\ sw' = [state |-> "activated", cache |-> ActivateKeeps(sw.cache)]
    /\ UNCHANGED <<store, nextId, sub, vapidConfigured, serviceKeyConfigured, snd,
                   obs, browser, cli, fev, pev, clk, codec, ui, dash>>

\* lines 49-57: the listener runs; for a GET it calls respondWith(fetch(...))
FetchEvent(e) ==
    /\ sw.state = "activated"
    /\ fev[e].pc = "idle"
    /\ \E method \in Methods, url \in Urls :
         fev' = [fev EXCEPT ![e] =
                   [@ EXCEPT !.method = method, !.url = url,
                             !.intercepted = Intercepts(method),
                             !.pc = IF Intercepts(method) THEN "network" ELSE "default"]]
    /\ UNCHANGED <<store, nextId, sub, vapidConfigured, serviceKeyConfigured, snd,
                   obs, browser, cli, sw, pev, clk, codec, ui, dash>>

\* lines 57-67: the network attempt settles; a response is passed on, a
\* rejection starts the cache lookup
NetworkSettle(e) ==
    /\ fev[e].pc = "network"
    /\ \/ fev' = [fev EXCEPT ![e].pc = "done", ![e].answer = "network-response"]
       \/ \E error \in NetErrors :
            fev' = [fev EXCEPT ![e].pc = "cache", ![e].error = error,
                               ![e].lookups = @ + 1]
    /\ UNCHANGED <<store, nextId, sub, vapidConfigured, serviceKeyConfigured, snd,
                   obs, browser, cli, sw, pev, clk, codec, ui, dash>>

\* lines 67-75: caches.match answers
CacheMatch(e) ==
    /\ fev[e].pc = "cache"
    /\ fev' = [fev EXCEPT ![e].pc = "done",
                 ![e].answer = CacheFallback(CachesMatch(sw.cache, fev[e].url), fev[e].error)]
    /\ UNCHANGED <<store, nextId, sub, vapidConfigured, serviceKeyConfigured, snd,
                   obs, browser, cli, sw, pev, clk, codec, ui, dash>>

\* lines 51-53: the listener returned without respondWith, so the browser
\* performs the request itself
DefaultFetch(e) ==
    /\ fev[e].pc = "default"
    /\ \/ fev' = [fev EXCEPT ![e].pc = "done", ![e].answer = "network-response"]
       \/ \E error \in NetErrors :
            fev' = [fev EXCEPT ![e].pc = "done", ![e].error = error, ![e].answer = error]
    /\ UNCHANGED <<store, nextId, sub, vapidConfigured, serviceKeyConfigured, snd,
                   obs, browser, cli, sw, pev, clk, codec, ui, dash>>

\* ------------------------------------- the service worker: push and click
\* a || b on strings: the empty string and an absent field are both falsy
Or(v, d) == IF v = Missing THEN d ELSE v

\* What showNotification is given: the title and the options that the
\* payload can set; data is kept as its url, Missing when it has none.
\* lines 98-105: the notification shown when the event says nothing else
\* (the source writes the title and the body with their accents)
DefaultNotification ==
    [title |-> "VisitaFlow Tecnico", body |-> "Voce tem uma nova notificacao",
     icon |-> "/icon.svg", tag |-> "visitaflow-notification", url |-> Missing]

NoNotification ==
    [title |-> Missing, body |-> Missing, icon |-> Missing, tag |-> Missing,
     url |-> Missing]

\* event.data: nothing, a text that is not JSON, the JSON text null, or a
\* JSON object with any of the fields the listener reads.  text is what
\* event.data.text() returns; the listener reads it only in its catch block.
NoFields == NoNotification
PayloadFields ==
    [title : {Missing, "Nova visita"}, body : {Missing, "Visita as 10h"},
     icon : {Missing, "/visita.png"}, tag : {Missing, "visita"},
     url : {Missing, "/visitas"}]
NoData == [kind |-> "none", text |-> Missing, fields |-> NoFields]
PushData ==
    {NoData, [kind |-> "text", text |-> "Visita cancelada", fields |-> NoFields],
     [kind |-> "null", text |-> "null", fields |-> NoFields]}
    \cup {[kind |-> "object", text |-> Missing, fields |-> f] : f \in PayloadFields}

\* lines 110-112: event.data.json() throws on a text that is not JSON, and
\* the read of payload.title throws when json() returned null
TryThrows(data) == data.kind \in {"text", "null"}

\* lines 98-126: notificationData when the listener reaches showNotification
NotificationData(data) ==
    IF data.kind = "none" THEN DefaultNotification
    ELSE IF TryThrows(data)
         THEN [DefaultNotification EXCEPT !.body = Or(data.text, @)]
         ELSE [title |-> Or(data.fields.title, DefaultNotification.title),
               body |-> Or(data.fields.body, DefaultNotification.body),
               icon |-> Or(data.fields.icon, DefaultNotification.icon),
               tag |-> Or(data.fields.tag, DefaultNotification.tag),
               url |-> Or(data.fields.url, DefaultNotification.url)]

\* One push event.  shown, calls: the options and the number of the
\* showNotification calls; held: the event is extended by waitUntil; raised:
\* the failures met, caught: those a catch block of the worker received,
\* logged: those the worker wrote to the console.
PevInit == [pc |-> "idle", data |-> NoData, shown |-> NoNotification, calls |-> 0,
            held |-> FALSE, raised |-> {}, caught |-> {}, logged |-> {}]

\* lines 95-148: the listener, up to its return
PushEvent(e) ==
    /\ sw.state = "activated"
    /\ pev[e].pc = "idle"
    /\ \E data \in PushData :
         LET thrown == IF TryThrows(data) THEN {"payload"} ELSE {}
         IN  pev' = [pev EXCEPT ![e] =
                       [pc |-> "waiting", data |-> data,
                        shown |-> NotificationData(data), calls |-> 1,
                        held |-> TRUE, raised |-> thrown, caught |-> thrown,
                        logged |-> {}]]
    /\ UNCHANGED <<store, nextId, sub, vapidConfigured, serviceKeyConfigured, snd,
                   obs, browser, cli, sw, fev, clk, codec, ui, dash>>

\* lines 129-147: the promise of showNotification settles; it was given to
\* waitUntil as it is, with no rejection handler
ShowNotificationSettle(e) ==
    /\ pev[e].pc = "waiting"
    /\ \/ pev' = [pev EXCEPT ![e].pc = "done", ![e].held = FALSE]
       \/ pev' = [pev EXCEPT ![e].pc = "done", ![e].held = FALSE,
                             ![e].raised = @ \cup {"showNotification"}]
    /\ UNCHANGED <<store, nextId, sub, vapidConfigured, serviceKeyConfigured, snd,
                   obs, browser, cli, sw, fev, clk, codec, ui, dash>>

\* event.notification.data of the clicked notification: null, an object
\* without url, or an object with a relative or an absolute url
ClickedData == {"null", "no-url", "/visitas", "https://app/visitas"}

\* a listener that always opens the dashboard
UrlToOpenFixed(data) == "/dashboard"

\* lines 161-162: notificationData.url || '/dashboard'
UrlToOpen(data) == IF data \in {"null", "no-url"} THEN "/dashboard" ELSE data

\* what clients.matchAll may resolve with: the URLs of the open windows,
\* which are absolute (WindowClient.url)
WindowUrls == {"https://app/dashboard", "https://app/visitas", "https://app/login"}
WindowLists == {<<>>} \cup {<<a>> : a \in WindowUrls}
                      \cup {<<a, b>> : a \in WindowUrls, b \in WindowUrls}

\* lines 172-177: the index of the first window whose url equals the target,
\* 0 when there is none
FirstMatch(windowClients, urlToOpen) ==
    LET hits == {i \in 1..Len(windowClients) : windowClients[i] = urlToOpen}
    IN  IF hits = {} THEN 0 ELSE CHOOSE i \in hits : \A j \in hits : i <= j

\* The click event under way.  data: event.notification.data; calls: the platform calls made, in order;
\* windows: what matchAll resolved with; focused: the index of the window
\* focus() was called on; opened: the url openWindow was called with.
ClkInit == [pc |-> "idle", data |-> "null", target |-> Missing, calls |-> <<>>, windows |-> <<>>,
            focused |-> 0, opened |-> Missing, held |-> FALSE,
            raised |-> {}, caught |-> {}, logged |-> {}]

\* lines 154-186: the listener, up to its return; the callback given to
\* then() runs later
NotificationClick ==
    /\ sw.state = "activated"
    /\ clk.pc \in {"idle", "done"}
    /\ \E data \in ClickedData :
         clk' = [ClkInit EXCEPT !.pc = "matching", !.data = data,
                                !.target = UrlToOpen(data),
                                !.calls = <<"close", "matchAll">>, !.held = TRUE]
    /\ UNCHANGED <<store, nextId, sub, vapidConfigured, serviceKeyConfigured, snd,
                   obs, browser, cli, sw, fev, pev, codec, ui, dash>>

\* lines 165-183: matchAll settles.  A rejection skips the callback and
\* rejects the promise given to waitUntil; otherwise the callback calls
\* focus() on the first match, or openWindow when there is none.
MatchAllSettle ==
    /\ clk.pc = "matching"
    /\ \/ clk' = [clk EXCEPT !.pc = "done", !.held = FALSE,
                             !.raised = @ \cup {"matchAll"}]
       \/ \E windowClients \in WindowLists :
            LET i == FirstMatch(windowClients, clk.target)
            IN  clk' = IF i # 0
                       THEN [clk EXCEPT !.pc = "focusing", !.windows = windowClients,
                                        !.calls = Append(@, "focus"), !.focused = i]
                       ELSE [clk EXCEPT !.pc = "opening", !.windows = windowClients,
                                        !.calls = Append(@, "openWindow"),
                                        !.opened = clk.target]
    /\ UNCHANGED <<store, nextId, sub, vapidConfigured, serviceKeyConfigured, snd,
                   obs, browser, cli, sw, fev, pev, codec, ui, dash>>

\* lines 175, 181: the promise of focus() or of openWindow() settles
WindowSettle ==
    /\ clk.pc \in {"focusing", "opening"}
    /\ \/ clk' = [clk EXCEPT !.pc = "done", !.held = FALSE]
       \/ clk' = [clk EXCEPT !.pc = "done", !.held = FALSE,
                             !.raised = @ \cup {IF clk.pc = "focusing" THEN "focus"
                                                ELSE "openWindow"}]
    /\ UNCHANGED <<store, nextId, sub, vapidConfigured, serviceKeyConfigured, snd,
                   obs, browser, cli, sw, fev, pev, codec, ui, dash>>

\* -------------------------------------------------- key material: base64
\* A character of a key string is written as its code: 0..63 is the place of
\* the character in the base64 alphabet (A-Z a-z 0-9 + /), and the three
\* characters outside it that matter are '=', '-' and '_'.
Plus == 62
Slash == 63
Pad == 64
Dash == 65
Underscore == 66

\* the characters key strings are drawn from: A B Q w + = - _
KeyChars == {0, 1, 16, 48, Plus, Pad, Dash, Underscore}
KeyStrings == UNION {[1..n -> KeyChars] : n \in 0..MaxKeyLen}

\* a substitution that forgets the underscore
ToStandardDashOnly(s) ==
    [i \in 1..Len(s) |-> IF s[i] = Dash THEN Plus ELSE s[i]]

\* line 264: .replace(/-/g, '+').replace(/_/g, '/')
ToStandard(s) ==
    [i \in 1..Len(s) |-> IF s[i] = Dash THEN Plus
                         ELSE IF s[i] = Underscore THEN Slash ELSE s[i]]

\* line 263: '='.repeat((4 - (base64String.length % 4)) % 4)
Padding(s) == [i \in 1..((4 - (Len(s) % 4)) % 4) |-> Pad]

\* window.atob (forgiving-base64 decode): one or two trailing '=' of a string
\* whose length is a multiple of 4 are dropped; what is left must have a
\* length that is not 1 modulo 4 and hold characters of the alphabet only
Unpadded(s) ==
    LET n == Len(s)
    IN  IF n % 4 # 0 \/ n = 0 \/ s[n] # Pad THEN s
        ELSE IF s[n - 1] = Pad THEN SubSeq(s, 1, n - 2)
        ELSE SubSeq(s, 1, n - 1)

AtobThrows(s) ==
    LET q == Unpadded(s)
    IN  Len(q) % 4 = 1 \/ \E i \in 1..Len(q) : q[i] \notin 0..63

\* the bytes of the sextets, 8 bits at a time; the bits left over are dropped
AtobBytes(s) ==
    LET q == Unpadded(s)
    IN  [k \in 1..((Len(q) * 6) \div 8) |->
            LET b == 4 * ((k - 1) \div 3)
            IN  CASE (k - 1) % 3 = 0 -> q[b + 1] * 4 + q[b + 2] \div 16
                  [] (k - 1) % 3 = 1 -> (q[b + 2] % 16) * 16 + q[b + 3] \div 4
                  [] OTHER -> (q[b + 3] % 4) * 64 + q[b + 4]]

\* lines 356-361: btoa(String.fromCharCode(...bytes)): four characters for
\* every three bytes, the last group filled with '='
Btoa(bytes) ==
    LET n == Len(bytes)
        at(i) == IF i <= n THEN bytes[i] ELSE 0
    IN  [c \in 1..(4 * ((n + 2) \div 3)) |->
            LET b == 3 * ((c - 1) \div 4)
            IN  CASE (c - 1) % 4 = 0 -> at(b + 1) \div 4
                  [] (c - 1) % 4 = 1 -> (at(b + 1) % 4) * 16 + at(b + 2) \div 16
                  [] (c - 1) % 4 = 2 -> IF b + 2 > n THEN Pad
                                        ELSE (at(b + 2) % 16) * 4 + at(b + 3) \div 64
                  [] OTHER -> IF b + 3 > n THEN Pad ELSE at(b + 3) % 64]

\* x: the key string; base64: the string given to atob; bytes: the
\* Uint8Array returned; out: what the encoder makes of those bytes
CodecInit == [pc |-> "input", x |-> <<>>, base64 |-> <<>>, bytes |-> <<>>,
              out |-> <<>>]

\* lines 262-274: urlBase64ToUint8Array; atob throws on what is not base64
DecodeKey ==
    /\ codec.pc = "input"
    /\ LET base64 == ToStandard(codec.x \o Padding(codec.x))
       IN  codec' = IF AtobThrows(base64)
                    THEN [codec EXCEPT !.pc = "threw", !.base64 = base64]
                    ELSE [codec EXCEPT !.pc = "decoded", !.base64 = base64,
                                       !.bytes = AtobBytes(base64)]
    /\ UNCHANGED <<store, nextId, sub, vapidConfigured, serviceKeyConfigured, snd,
                   obs, browser, cli, sw, fev, pev, clk, ui, dash>>

\* lines 356-361: the bytes are encoded as the key material of a subscription is
EncodeKey ==
    /\ codec.pc = "decoded"
    /\ codec' = [codec EXCEPT !.pc = "encoded", !.out = Btoa(codec.bytes)]
    /\ UNCHANGED <<store, nextId, sub, vapidConfigured, serviceKeyConfigured, snd,
                   obs, browser, cli, sw, fev, pev, clk, ui, dash>>

\* ------------------------------------------------ PushNotificationManager
\* The useState values of the component (vapidPublicKey as whether it is
\* set), and where its code stands: load, the await loadState is suspended
\* at; op, the handler that is awaiting the library.
UiInit == [load |-> "init", op |-> "none", isSupported |-> FALSE,
           permission |-> "default", isSubscribed |-> FALSE, isLoading |-> FALSE,
           vapidPublicKey |-> FALSE]

\* lines 31-47: loadState up to its first await
LoadState ==
    /\ ui.load = "init"
    /\ ui' = IF ~IsPushNotificationSupported(browser)
             THEN [ui EXCEPT !.load = "done"]
             ELSE [ui EXCEPT !.load = "has", !.isSupported = TRUE,
                             !.permission = browser.permission]
    /\ cli' = CliInit
    /\ UNCHANGED <<store, nextId, sub, vapidConfigured, serviceKeyConfigured, snd,
                   obs, browser, sw, fev, pev, clk, codec, dash>>

\* line 47: hasActiveSubscription is called
LoadHas ==
    /\ ui.load = "has"
    /\ cli.pc = "idle"
    /\ CallHas

\* lines 47-48: setIsSubscribed(subscribed); the fetch of the key is sent
LoadSubscribed ==
    /\ ui.load = "has"
    /\ cli.pc = "done"
    /\ ui' = [ui EXCEPT !.load = "key", !.isSubscribed = cli.result = "true"]
    /\ UNCHANGED <<store, nextId, sub, vapidConfigured, serviceKeyConfigured, snd,
                   obs, browser, cli, sw, fev, pev, clk, codec, dash>>

\* lines 51-59: /api/push/vapid-key answers with the key, or does not
LoadKey ==
    /\ ui.load = "key"
    /\ \E ok \in BOOLEAN :
         ui' = [ui EXCEPT !.load = "done", !.vapidPublicKey = ok]
    /\ UNCHANGED <<store, nextId, sub, vapidConfigured, serviceKeyConfigured, snd,
                   obs, browser, cli, sw, fev, pev, clk, codec, dash>>

\* lines 115-121 and 168-186: the button that is rendered and not disabled
ButtonEnabled(u, button) ==
    /\ u.isSupported
    /\ ~u.isLoading
    /\ IF button = "enable"
       THEN ~u.isSubscribed /\ u.permission # "denied" /\ u.vapidPublicKey
       ELSE u.isSubscribed

\* lines 65-76: handleEnable up to its await
HandleEnable ==
    /\ ButtonEnabled(ui, "enable")
    /\ ui.op = "none"
    /\ ui' = [ui EXCEPT !.op = "enable", !.isLoading = TRUE]
    /\ cli' = CliInit
    /\ UNCHANGED <<store, nextId, sub, vapidConfigured, serviceKeyConfigured, snd,
                   obs, browser, sw, fev, pev, clk, codec, dash>>

\* line 76: enablePushNotifications is called
EnableCalled ==
    /\ ui.op = "enable"
    /\ cli.pc = "idle"
    /\ CallPermission("enable")

\* lines 78-89: the result of enablePushNotifications
EnableReturned ==
    /\ ui.op = "enable"
    /\ cli.pc = "done"
    /\ ui' = IF cli.result = "ok"
             THEN [ui EXCEPT !.op = "none", !.isLoading = FALSE,
                             !.isSubscribed = TRUE, !.permission = "granted"]
             ELSE [ui EXCEPT !.op = "none", !.isLoading = FALSE]
    /\ UNCHANGED <<store, nextId, sub, vapidConfigured, serviceKeyConfigured, snd,
                   obs, browser, cli, sw, fev, pev, clk, codec, dash>>

\* lines 93-99: handleDisable up to its await
HandleDisable ==
    /\ ButtonEnabled(ui, "disable")
    /\ ui.op = "none"
    /\ ui' = [ui EXCEPT !.op = "disable", !.isLoading = TRUE]
    /\ cli' = CliInit
    /\ UNCHANGED <<store, nextId, sub, vapidConfigured, serviceKeyConfigured, snd,
                   obs, browser, sw, fev, pev, clk, codec, dash>>

\* line 99: disablePushNotifications is called
DisableCalled ==
    /\ ui.op = "disable"
    /\ cli.pc = "idle"
    /\ CallDisable

\* lines 101-111: the result of disablePushNotifications
DisableReturned ==
    /\ ui.op = "disable"
    /\ cli.pc = "done"
    /\ ui' = IF cli.result = "ok"
             THEN [ui EXCEPT !.op = "none", !.isLoading = FALSE, !.isSubscribed = FALSE]
             ELSE [ui EXCEPT !.op = "none", !.isLoading = FALSE]
    /\ UNCHANGED <<store, nextId, sub, vapidConfigured, serviceKeyConfigured, snd,
                   obs, browser, cli, sw, fev, pev, clk, codec, dash>>

\* ------------------------------------------------ the dashboard: loadVisitas
\* The open visits of the technician are written as the version of the
\* visits table a query saw (0 at first, one more with every change); NoVisits
\* is the empty list.
NoVisits == Absent

\* One call of loadVisitas.  seq: its place in the order the calls started;
\* data: what its visits query read; set: whether it has called setVisitas.
LoadInit == [pc |-> "idle", seq |-> 0, data |-> NoVisits, set |-> FALSE]

\* employee: whether the user has an employees row; db: the version of the
\* visits table; started: the calls made so far; visitas: the list held in
\* state; load[c]: the calls
DashInit == [employee |-> TRUE, db |-> 0, started |-> 0, visitas |-> NoVisits,
             load |-> [c \in Loads |-> LoadInit]]

\* a visit of the technician is inserted or updated
VisitsChange ==
    /\ dash.db < MaxChanges
    /\ dash' = [dash EXCEPT !.db = @ + 1]
    /\ UNCHANGED <<store, nextId, sub, vapidConfigured, serviceKeyConfigured, snd,
                   obs, browser, cli, sw, fev, pev, clk, codec, ui>>

\* part_001 lines 680-690: the initial load, a realtime change, visibilitychange
\* or focus calls loadVisitas, which sends the employees query
StartLoad(c) ==
    /\ dash.load[c].pc = "idle"
    /\ dash' = [dash EXCEPT !.started = @ + 1,
                            !.load[c] = [LoadInit EXCEPT !.pc = "employee",
                                                         !.seq = dash.started + 1]]
    /\ UNCHANGED <<store, nextId, sub, vapidConfigured, serviceKeyConfigured, snd,
                   obs, browser, cli, sw, fev, pev, clk, codec, ui>>

\* lines 686-706: the employees query answers: an error ends the call in the
\* catch block, no employee sets the empty list, otherwise the visits query
\* is sent
EmployeeAnswer(c) ==
    /\ dash.load[c].pc = "employee"
    /\ \/ dash' = [dash EXCEPT !.load[c].pc = "done"]
       \/ /\ ~dash.employee
          /\ dash' = [dash EXCEPT !.load[c].pc = "done", !.load[c].set = TRUE,
                                  !.visitas = NoVisits]
       \/ /\ dash.employee
          /\ dash' = [dash EXCEPT !.load[c].pc = "visits"]
    /\ UNCHANGED <<store, nextId, sub, vapidConfigured, serviceKeyConfigured, snd,
                   obs, browser, cli, sw, fev, pev, clk, codec, ui>>

\* lines 700-706: the data store runs the visits query
VisitsRead(c) ==
    /\ dash.load[c].pc = "visits"
    /\ dash' = [dash EXCEPT !.load[c].pc = "reply", !.load[c].data = dash.db]
    /\ UNCHANGED <<store, nextId, sub, vapidConfigured, serviceKeyConfigured, snd,
                   obs, browser, cli, sw, fev, pev, clk, codec, ui>>

\* lines 706-712: the answer arrives: setVisitas(data), or the error is thrown
\* to the catch block
VisitsAnswer(c) ==
    /\ dash.load[c].pc = "reply"
    /\ \/ dash' = [dash EXCEPT !.load[c].pc = "done", !.load[c].set = TRUE,
                               !.visitas = dash.load[c].data]
       \/ dash' = [dash EXCEPT !.load[c].pc = "done", !.load[c].data = NoVisits]
    /\ UNCHANGED <<store, nextId, sub, vapidConfigured, serviceKeyConfigured, snd,
                   obs, browser, cli, sw, fev, pev, clk, codec, ui>>

\* ------------------------------------------------------------ specifications
SubVars == <<store, nextId, sub>>

\* Outside the server nothing has happened yet, and nothing happens
BrowserInit == [supported |-> TRUE, permission |-> "default",
                subscription |-> NoSubscription, session |-> Missing]

SwInit == [state |-> "installed", cache |-> {}]

\* The server specifications leave the browser, the worker and the pages
\* out: their variables hold no value there and never change
Elsewhere ==
    /\ obs = ObsInit
    /\ browser = <<>>
    /\ cli = <<>>
    /\ sw = <<>>
    /\ fev = <<>>
    /\ pev = <<>>
    /\ clk = <<>>
    /\ codec = <<>>
    /\ ui = <<>>
    /\ dash = <<>>

ServerOnly == UNCHANGED <<obs, browser, cli, sw, fev, pev, clk, codec, ui, dash>>

\* The subscription store: the table starts empty on a configured server;
\* subscribe requests run concurrently with each other and with a dispatcher
\* run.  A dispatcher run that reaches the query without a userId matches
\* every row, so it can prune any subset of the table.
Pruners == {1}

Init ==
    /\ store = {}
    /\ nextId = 0
    /\ sub = [r \in Reqs |-> SubInit]
    /\ vapidConfigured = TRUE
    /\ serviceKeyConfigured = TRUE
    /\ snd = [s \in Sends |-> SendInit]
    /\ Elsewhere

PruneStart(s) ==
    /\ SendStart(s)
    /\ snd'[s].pc = "load"
    /\ snd'[s].via = "lib"
    /\ snd'[s].userId = Missing

\* for the table, a call that fails otherwise is a call that succeeds
PruneSettle(s, i) ==
    /\ GatewaySettle(s, i)
    /\ snd'[s].outcome[i] # "error"

\* and a delete that is rejected is a call that succeeded
PruneDelete(s, i) ==
    /\ DeleteDone(s, i)
    /\ snd'[s].del[i] = "ok"

Next ==
    \/ \E r \in Reqs : SubStart(r) /\ ServerOnly
    \/ \E r \in Reqs : SubLookup(r) /\ ServerOnly
    \/ \E r \in Reqs : SubUpdate(r) /\ ServerOnly
    \/ \E r \in Reqs : SubInsert(r) /\ ServerOnly
    \/ \E s \in Pruners : PruneStart(s) /\ ServerOnly
    \/ \E s \in Pruners : SendLoad(s) /\ ServerOnly
    \/ \E s \in Pruners : SendMap(s) /\ ServerOnly
    \/ \E s \in Pruners, i \in Ids : PruneSettle(s, i) /\ ServerOnly
    \/ \E s \in Pruners, i \in Ids : PruneDelete(s, i) /\ ServerOnly
    \/ \E s \in Pruners : SendFinish(s) /\ ServerOnly

Spec == Init /\ [][Next]_vars

\* The dispatcher: any table the store may hold, any server configuration,
\* any request to either sender; sends run concurrently with each other.
StoredRows == {Row(i, u, e, "k1", "a1") : i \in Ids, u \in Users, e \in Endpoints}

\* ids are opaque uuids: of the tables that differ only in which id names
\* which row, the one whose ids follow the order of the pairs stands for all
PairRank(x) == (IF x.user_id = "u1" THEN 0 ELSE 2) + (IF x.endpoint = "e1" THEN 0 ELSE 1)

Tables == {t \in SUBSET StoredRows :
             /\ RowIds(t) = 1..Cardinality(t)
             /\ \A x, y \in t : x.id = y.id => x = y
             /\ \A x, y \in t : (x.user_id = y.user_id /\ x.endpoint = y.endpoint) => x = y
             /\ \A x, y \in t : x.id < y.id => PairRank(x) < PairRank(y)}

SendInitState ==
    /\ store \in Tables
    /\ nextId = Cardinality(store)
    /\ sub = [r \in Reqs |-> SubInit]
    /\ vapidConfigured \in BOOLEAN
    /\ serviceKeyConfigured \in BOOLEAN
    /\ snd = [s \in Sends |-> SendInit]
    /\ Elsewhere

SendNext ==
    \/ \E s \in Sends : SendStart(s) /\ ServerOnly
    \/ \E s \in Sends : SendLoad(s) /\ ServerOnly
    \/ \E s \in Sends : SendMap(s) /\ ServerOnly
    \/ \E s \in Sends, i \in Ids : GatewaySettle(s, i) /\ ServerOnly
    \/ \E s \in Sends, i \in Ids : DeleteDone(s, i) /\ ServerOnly
    \/ \E s \in Sends : SendFinish(s) /\ ServerOnly

SendSpec == SendInitState /\ [][SendNext]_vars

\* The subscribe handler, one request at a time against any table the store
\* may hold, with its history recorded in obs.
Handled == {1}

ObservedStart(r) ==
    /\ SubStart(r)
    /\ \E c \in SubscribeCredentials, parses \in BOOLEAN, b \in Bodies :
         /\ sub'[r] = SubEntry(c, parses, b)
         /\ obs' = [obs EXCEPT ![r] = Observe(c, parses, b)]
    /\ UNCHANGED <<browser, cli, sw, fev, pev, clk, codec, ui, dash>>

ObservedLookup(r) ==
    /\ SubLookup(r)
    /\ \E fail \in BOOLEAN :
         /\ sub'[r].existing = SelectSingle(store, sub[r].token, sub[r].user,
                                            sub[r].endpoint, fail)
         /\ obs' = [obs EXCEPT ![r].faults = IF fail THEN @ \cup {"lookup"} ELSE @]
    /\ UNCHANGED <<browser, cli, sw, fev, pev, clk, codec, ui, dash>>

ObservedUpdate(r) ==
    /\ SubUpdate(r)
    /\ \E fail \in BOOLEAN :
         LET ok == UpdateOk(store, sub[r].token, sub[r].existing, fail)
         IN  /\ ok <=> sub'[r].status = 200
             /\ obs' = [obs EXCEPT ![r].faults = IF ok THEN @ ELSE @ \cup {"update"}]
    /\ UNCHANGED <<browser, cli, sw, fev, pev, clk, codec, ui, dash>>

ObservedInsert(r) ==
    /\ SubInsert(r)
    /\ \E fail \in BOOLEAN :
         LET ok == InsertOk(store, sub[r].token, sub[r].user, sub[r].endpoint, fail)
         IN  /\ ok <=> sub'[r].status = 200
             /\ obs' = [obs EXCEPT ![r].faults = IF ok THEN @ ELSE @ \cup {"insert"}]
    /\ UNCHANGED <<browser, cli, sw, fev, pev, clk, codec, ui, dash>>

HandlerInit ==
    /\ store \in Tables
    /\ nextId = Cardinality(store)
    /\ sub = [r \in Reqs |-> SubInit]
    /\ vapidConfigured = TRUE
    /\ serviceKeyConfigured = TRUE
    /\ snd = [s \in Sends |-> SendInit]
    /\ Elsewhere

HandlerNext ==
    \/ \E r \in Handled : ObservedStart(r)
    \/ \E r \in Handled : ObservedLookup(r)
    \/ \E r \in Handled : ObservedUpdate(r)
    \/ \E r \in Handled : ObservedInsert(r)

HandlerSpec == HandlerInit /\ [][HandlerNext]_vars

\* Concurrent subscribe requests on a table that starts empty, each with the
\* record of what it carried and of the data-store faults it met.
RaceNext ==
    \/ \E r \in Reqs : ObservedStart(r)
    \/ \E r \in Reqs : ObservedLookup(r)
    \/ \E r \in Reqs : ObservedUpdate(r)
    \/ \E r \in Reqs : ObservedInsert(r)

RaceSpec == Init /\ [][RaceNext]_vars

\* The page: one library call at a time on any platform, its POST handled by
\* the subscribe handler, and a dispatcher run against the same table.
Posts == {1}

Browsers == [supported : BOOLEAN, permission : Permissions,
             subscription : {NoSubscription}, session : SessionTokens]

ClientInit ==
    /\ store = {}
    /\ nextId = 0
    /\ sub = [r \in Reqs |-> SubInit]
    /\ vapidConfigured = TRUE
    /\ serviceKeyConfigured = TRUE
    /\ snd = [s \in Sends |-> SendInit]
    /\ obs = ObsInit
    /\ browser \in Browsers
    /\ cli = CliInit
    /\ sw = SwInit
    /\ fev = [e \in Events |-> FevInit]
    /\ pev = [e \in Events |-> PevInit]
    /\ clk = ClkInit
    /\ codec = CodecInit
    /\ ui = UiInit
    /\ dash = DashInit

ClientNext ==
    \/ \E op \in {"request", "enable"} : CallPermission(op)
    \/ PromptAnswer
    \/ CreateSubscription
    \/ CallPersist
    \/ PersistThrows
    \/ \E r \in Posts : PersistPost(r)
    \/ \E r \in Posts : SubLookup(r) /\ ServerOnly
    \/ \E r \in Posts : SubUpdate(r) /\ ServerOnly
    \/ \E r \in Posts : SubInsert(r) /\ ServerOnly
    \/ \E r \in Posts : PersistReceive(r)
    \/ CallDisable
    \/ Unsubscribe
    \/ CallHas
    \/ \E s \in Pruners : PruneStart(s) /\ ServerOnly
    \/ \E s \in Pruners : SendLoad(s) /\ ServerOnly
    \/ \E s \in Pruners : SendMap(s) /\ ServerOnly
    \/ \E s \in Pruners, i \in Ids : GatewaySettle(s, i) /\ ServerOnly
    \/ \E s \in Pruners, i \in Ids : DeleteDone(s, i) /\ ServerOnly
    \/ \E s \in Pruners : SendFinish(s) /\ ServerOnly

ClientSpec == ClientInit /\ [][ClientNext]_vars

\* The component in a page: it loads its state, then the user presses the
\* buttons it offers; the library calls and the subscribe handler run as in
\* ClientSpec.  The browser may hold a subscription from an earlier visit.
UiInitState ==
    /\ store = {}
    /\ nextId = 0
    /\ sub = [r \in Reqs |-> SubInit]
    /\ vapidConfigured = TRUE
    /\ serviceKeyConfigured = TRUE
    /\ snd = [s \in Sends |-> SendInit]
    /\ obs = ObsInit
    /\ browser \in [supported : BOOLEAN, permission : Permissions,
                     subscription : {NoSubscription,
                                     [endpoint |-> "e1", p256dh |-> "k1", auth |-> "a1"]},
                     session : SessionTokens]
    /\ cli = CliInit
    /\ sw = SwInit
    /\ fev = [e \in Events |-> FevInit]
    /\ pev = [e \in Events |-> PevInit]
    /\ clk = ClkInit
    /\ codec = CodecInit
    /\ ui = UiInit
    /\ dash = DashInit

UiNext ==
    \/ LoadState
    \/ LoadHas
    \/ LoadSubscribed
    \/ LoadKey
    \/ HandleEnable
    \/ EnableCalled
    \/ ui.op = "enable" /\ PromptAnswer
    \/ ui.op = "enable" /\ CreateSubscription
    \/ ui.op = "enable" /\ PersistThrows
    \/ \E r \in Posts : ui.op = "enable" /\ PersistPost(r)
    \/ \E r \in Posts : SubLookup(r) /\ ServerOnly
    \/ \E r \in Posts : SubUpdate(r) /\ ServerOnly
    \/ \E r \in Posts : SubInsert(r) /\ ServerOnly
    \/ \E r \in Posts : ui.op = "enable" /\ PersistReceive(r)
    \/ EnableReturned
    \/ HandleDisable
    \/ DisableCalled
    \/ ui.op = "disable" /\ Unsubscribe
    \/ DisableReturned

UiSpec == UiInitState /\ [][UiNext]_vars

\* The dashboard: loadVisitas calls that overlap in any way, while the
\* visits of the technician change.
DashInitState ==
    /\ store = {}
    /\ nextId = 0
    /\ sub = [r \in Reqs |-> SubInit]
    /\ vapidConfigured = TRUE
    /\ serviceKeyConfigured = TRUE
    /\ snd = [s \in Sends |-> SendInit]
    /\ obs = ObsInit
    /\ browser = BrowserInit
    /\ cli = CliInit
    /\ sw = SwInit
    /\ fev = [e \in Events |-> FevInit]
    /\ pev = [e \in Events |-> PevInit]
    /\ clk = ClkInit
    /\ codec = CodecInit
    /\ ui = UiInit
    /\ dash \in {[DashInit EXCEPT !.employee = b] : b \in BOOLEAN}

DashNext ==
    \/ VisitsChange
    \/ \E c \in Loads : StartLoad(c)
    \/ \E c \in Loads : EmployeeAnswer(c)
    \/ \E c \in Loads : VisitsRead(c)
    \/ \E c \in Loads : VisitsAnswer(c)

DashSpec == DashInitState /\ [][DashNext]_vars

\* The service worker: any caches the origin may hold when it is activated,
\* and fetch events handled concurrently.
SwInitState ==
    /\ store = {}
    /\ nextId = 0
    /\ sub = [r \in Reqs |-> SubInit]
    /\ vapidConfigured = TRUE
    /\ serviceKeyConfigured = TRUE
    /\ snd = [s \in Sends |-> SendInit]
    /\ obs = ObsInit
    /\ browser = BrowserInit
    /\ cli = CliInit
    /\ sw \in [state : {"installed"}, cache : SUBSET (CacheNames \X Urls)]
    /\ fev = [e \in Events |-> FevInit]
    /\ pev = [e \in Events |-> PevInit]
    /\ clk = ClkInit
    /\ codec = CodecInit
    /\ ui = UiInit
    /\ dash = DashInit

SwNext ==
    \/ Activate
    \/ \E e \in Events : FetchEvent(e)
    \/ \E e \in Events : NetworkSettle(e)
    \/ \E e \in Events : CacheMatch(e)
    \/ \E e \in Events : DefaultFetch(e)

SwSpec == SwInitState /\ [][SwNext]_vars

\* Push events reach an activated worker, each with any payload, and are
\* handled concurrently.
PushInit ==
    /\ store = {}
    /\ nextId = 0
    /\ sub = [r \in Reqs |-> SubInit]
    /\ vapidConfigured = TRUE
    /\ serviceKeyConfigured = TRUE
    /\ snd = [s \in Sends |-> SendInit]
    /\ obs = ObsInit
    /\ browser = BrowserInit
    /\ cli = CliInit
    /\ sw = [state |-> "activated", cache |-> {}]
    /\ fev = [e \in Events |-> FevInit]
    /\ pev = [e \in Events |-> PevInit]
    /\ clk = ClkInit
    /\ codec = CodecInit
    /\ ui = UiInit
    /\ dash = DashInit

PushNext ==
    \/ \E e \in Events : PushEvent(e)
    \/ \E e \in Events : ShowNotificationSettle(e)

PushSpec == PushInit /\ [][PushNext]_vars

\* Notification clicks reach an activated worker one after the other, with
\* any set of windows open.
ClickNext ==
    \/ NotificationClick
    \/ MatchAllSettle
    \/ WindowSettle

ClickSpec == PushInit /\ [][ClickNext]_vars

\* The codec: any key string, decoded and, where that succeeds, encoded again
CodecInitState ==
    /\ store = {}
    /\ nextId = 0
    /\ sub = [r \in Reqs |-> SubInit]
    /\ vapidConfigured = TRUE
    /\ serviceKeyConfigured = TRUE
    /\ snd = [s \in Sends |-> SendInit]
    /\ obs = ObsInit
    /\ browser = BrowserInit
    /\ cli = CliInit
    /\ sw = SwInit
    /\ fev = [e \in Events |-> FevInit]
    /\ pev = [e \in Events |-> PevInit]
    /\ clk = ClkInit
    /\ codec \in {[CodecInit EXCEPT !.x = x] : x \in KeyStrings}
    /\ ui = UiInit
    /\ dash = DashInit

CodecNext ==
    \/ DecodeKey
    \/ EncodeKey

CodecSpec == CodecInitState /\ [][CodecNext]_vars

\* ------------------------------------------------------------------ claims
RowsOf(rows, u, e) == {x \in rows : x.user_id = u /\ x.endpoint = e}

\* C1: in every reachable state of the table, whatever the interleaving of
\* subscribe requests and dispatcher prunes, at most one row is stored for
\* each (user_id, endpoint) pair.
C1_OneRowPerPair ==
    \A u \in Users, e \in Endpoints : Cardinality(RowsOf(store, u, e)) <= 1

\* a second insert for a stored pair is about to be attempted while a
\* dispatcher is pruning the stored row
C1_Witness ==
    \E r \in Reqs :
        /\ sub[r].pc = "write"
        /\ sub[r].existing = NoId
        /\ sub[r].token = sub[r].user
        /\ \E x \in RowsOf(store, sub[r].user, sub[r].endpoint) :
              \E s \in Sends : snd[s].task[x.id] = "deleting"

\* C2: a subscribe call answered with 200 leaves exactly one row for its
\* (user, endpoint), holding the keys of that call; so the second of two
\* successive calls with different keys leaves one row with its own keys.
C2_UpsertKeepsLatestKeys ==
    [][\A r \in Reqs :
          (sub[r].pc = "write" /\ sub'[r].pc = "done" /\ sub'[r].status = 200) =>
             /\ Cardinality(RowsOf(store', sub[r].user, sub[r].endpoint)) = 1
             /\ \A x \in RowsOf(store', sub[r].user, sub[r].endpoint) :
                   x.p256dh = sub[r].p256dh /\ x.auth = sub[r].auth]_vars

\* a second call has replaced the keys the first call stored
C2_Witness ==
    \E r1, r2 \in Reqs :
        /\ r1 # r2
        /\ sub[r1].pc = "done" /\ sub[r1].status = 200 /\ ~sub[r1].rekeyed
        /\ sub[r2].pc = "done" /\ sub[r2].status = 200 /\ sub[r2].rekeyed
        /\ nextId = 1
        /\ Cardinality(store) = 1

\* the matched rows of a send, and those whose gateway call failed
MatchedIds(s) == RowIds(snd[s].matched)
FailedIds(s) == {i \in MatchedIds(s) : snd[s].outcome[i] \in {"gone410", "error"}}
N(s) == Cardinality(MatchedIds(s))
K(s) == Cardinality(FailedIds(s))

\* the step on which a send returns the counts of its run
Finishes(s) == snd[s].pc = "await" /\ snd'[s].pc = "done"

\* C3 as stated: every result carries sent = N-K, failed = K and total = N.
C3_Original ==
    [][\A s \in Sends :
          Finishes(s) =>
             /\ snd'[s].res.sent = N(s) - K(s)
             /\ snd'[s].res.failed = K(s)
             /\ snd'[s].res.total = N(s)]_vars

\* C3, amended: for N >= 1 matched subscriptions of which K gateway calls
\* fail, the result carries sent = N-K and failed = K; the endpoint's result
\* also carries total = N, so that sent + failed = total, and the result of
\* sendPushNotificationServer carries no total.
C3_Counts ==
    [][\A s \in Sends :
          Finishes(s) =>
             /\ N(s) >= 1
             /\ snd'[s].res.sent = N(s) - K(s)
             /\ snd'[s].res.failed = K(s)
             /\ snd[s].via = "endpoint" =>
                   /\ snd'[s].res.total = N(s)
                   /\ snd'[s].res.sent + snd'[s].res.failed = snd'[s].res.total
             /\ snd[s].via = "lib" => snd'[s].res.total = Absent]_vars

\* two matched subscriptions, one of them failed, counted by the endpoint
C3_Witness ==
    \E s \in Sends :
        /\ snd[s].pc = "done" /\ snd[s].queried = "rows" /\ snd[s].via = "endpoint"
        /\ snd[s].res.sent = 1 /\ snd[s].res.failed = 1 /\ snd[s].res.total = 2

C5_OneAttemptEach ==
    \A s \in Sends : \A i \in Ids :
        /\ snd[s].attempts[i] <= 1
        /\ i \notin MatchedIds(s) => snd[s].attempts[i] = 0
        /\ (snd[s].pc = "await" /\ i \in MatchedIds(s)) => snd[s].attempts[i] = 1

\* one call has failed while the call to another subscription is under way
C5_Witness ==
    \E s \in Sends : \E i, j \in MatchedIds(s) :
        /\ snd[s].pc = "await"
        /\ snd[s].outcome[i] \in {"gone410", "error"}
        /\ snd[s].task[j] = "inflight" /\ snd[s].attempts[j] = 1

\* C6: a send produces its counts only after every gateway call has settled
\* and every delete issued for a 410 has answered; every outcome is counted.
C6_ResultAfterAllSettled ==
    [][\A s \in Sends :
          (snd[s].pc # "done" /\ snd'[s].pc = "done" /\ snd'[s].queried = "rows") =>
             /\ snd[s].pc = "await"
             /\ \A i \in MatchedIds(s) :
                   /\ snd[s].outcome[i] # "none"
                   /\ snd[s].task[i] = "settled"
                   /\ snd[s].outcome[i] = "gone410" => snd[s].del[i] # "none"
             /\ snd'[s].res.sent + snd'[s].res.failed = N(s)]_vars

\* a send has returned counts of both kinds after a row was deleted for a 410
C6_Witness ==
    \E s \in Sends :
        /\ snd[s].pc = "done" /\ snd[s].queried = "rows"
        /\ snd[s].res.sent >= 1 /\ snd[s].res.failed >= 1
        /\ Cardinality(store) < nextId

\* C7: a request to the endpoint whose x-internal-secret is missing or wrong
\* is answered 401; it queries nothing, calls no gateway, deletes nothing.
C7_SecretGate ==
    \A s \in Sends :
        (snd[s].pc # "idle" /\ snd[s].via = "endpoint" /\ snd[s].hdr # "right") =>
            /\ snd[s].pc = "done"
            /\ snd[s].res.status = 401
            /\ snd[s].queried = "no"
            /\ \A i \in Ids : snd[s].attempts[i] = 0 /\ snd[s].del[i] = "none"

\* a wrong secret rejected on a configured server that has subscriptions
C7_Witness ==
    \E s \in Sends :
        /\ snd[s].pc = "done" /\ snd[s].via = "endpoint" /\ snd[s].hdr = "wrong"
        /\ snd[s].res.status = 401
        /\ store # {} /\ vapidConfigured /\ serviceKeyConfigured

\* C8: the query of a send matches every stored row when no userId is given
\* and otherwise exactly the rows of that user; gateway calls go to the
\* matched rows only, so never to a row of another user.
C8_TargetsOnlyTheUser ==
    [][\A s \in Sends :
          /\ (snd[s].pc = "load" /\ snd'[s].pc = "map") =>
                snd'[s].matched = IF snd[s].userId = Missing THEN store
                                  ELSE {x \in store : x.user_id = snd[s].userId}
          /\ snd'[s].pc = "await" =>
                {i \in Ids : snd'[s].attempts[i] > 0} = RowIds(snd'[s].matched)
          /\ \A x \in snd'[s].matched :
                snd'[s].userId = Missing \/ x.user_id = snd'[s].userId]_vars

\* every call of a send for one user has settled, and a stored row of
\* another user was left alone
C8_Witness ==
    \E s \in Sends : \E x \in store :
        /\ snd[s].pc = "await" /\ snd[s].userId # Missing
        /\ \A m \in MatchedIds(s) : snd[s].task[m] = "settled"
        /\ x.user_id # snd[s].userId /\ snd[s].attempts[x.id] = 0

\* the step on which a send answers that nobody is subscribed
AnswersEmpty(s) ==
    snd[s].pc # "done" /\ snd'[s].pc = "done" /\ snd'[s].queried = "empty"

\* C9 as stated: with no matching subscription the result is
\* {success: true, sent: 0, failed: 0, total: 0}.
C9_Original ==
    [][\A s \in Sends :
          AnswersEmpty(s) =>
             /\ snd'[s].res.success = "true"
             /\ snd'[s].res.sent = 0
             /\ snd'[s].res.failed = 0
             /\ snd'[s].res.total = 0]_vars

\* C9, amended: with a valid title and body and no matching subscription a
\* send makes no gateway call and answers without an error and with sent = 0:
\* sendPushNotificationServer returns {success: true, sent: 0, failed: 0} and
\* the endpoint answers 200 with sent: 0; neither result carries a total, and
\* the endpoint's carries no success and no failed.
C9_EmptyTarget ==
    [][\A s \in Sends :
          /\ (snd[s].pc = "load" /\ snd'[s].pc # "load" /\ snd'[s].queried # "error"
              /\ \A x \in store : snd[s].userId # Missing /\ x.user_id # snd[s].userId) =>
                AnswersEmpty(s)
          /\ AnswersEmpty(s) =>
                /\ snd[s].pc = "load"
                /\ \A i \in Ids : snd[s].attempts[i] = 0
                /\ UNCHANGED store
                /\ snd'[s].res.sent = 0
                /\ snd'[s].res.total = Absent
                /\ snd[s].via = "lib" =>
                      snd'[s].res.success = "true" /\ snd'[s].res.failed = 0
                /\ snd[s].via = "endpoint" =>
                      /\ snd'[s].res.status = 200
                      /\ snd'[s].res.success = "absent"
                      /\ snd'[s].res.failed = Absent]_vars

\* the endpoint has answered a send that matched nothing though rows are stored
C9_Witness ==
    \E s \in Sends :
        /\ snd[s].pc = "done" /\ snd[s].queried = "empty"
        /\ snd[s].via = "endpoint" /\ snd[s].res.status = 200 /\ snd[s].res.sent = 0
        /\ store # {}

\* C10: a subscribe request that carries no valid credential is answered 401
\* and issues no call to the data store.
C10_Unauthenticated ==
    \A r \in Reqs :
        (sub[r].pc # "idle" /\ ~sub[r].hasCred) =>
            /\ sub[r].pc = "done"
            /\ sub[r].status = 401
            /\ sub[r].dbOps = 0

\* an unauthenticated request turned away while the table holds a row
C10_Witness ==
    \E r \in Reqs :
        /\ sub[r].pc = "done" /\ ~sub[r].hasCred /\ sub[r].status = 401
        /\ store # {}

C12_Original ==
    \A r \in Reqs :
        (sub[r].pc = "done" /\ obs[r].faults # {}) => sub[r].status = 500

\* C13: requestNotificationPermission prompts the user only when the
\* permission is 'default' (and push is supported); called with 'granted' it
\* returns 'granted' without a prompt, called with 'denied' it throws without
\* a prompt.
C13_PromptsOnlyOnDefault ==
    (cli.op \in {"request", "enable"}) =>
        /\ (cli.prompted \/ cli.pc = "prompt") =>
              (cli.was = "default" /\ browser.supported)
        /\ (cli.op = "request" /\ cli.pc = "done" /\ browser.supported
            /\ cli.was = "granted") =>
              (cli.result = "granted" /\ ~cli.prompted)
        /\ (cli.op = "request" /\ cli.pc = "done" /\ cli.was = "denied") =>
              (cli.result = "thrown" /\ ~cli.prompted)

\* a request made with the permission denied has failed without a prompt
C13_Witness ==
    /\ cli.op = "request" /\ cli.pc = "done"
    /\ browser.supported /\ cli.was = "denied"
    /\ cli.result = "thrown" /\ ~cli.prompted

\* C14: enablePushNotifications asks for permission, then creates the
\* subscription, then posts it, and stops at the first step that fails: it
\* obtains a subscription only with permission 'granted', it posts only a
\* subscription it has obtained, and a failure is returned as
\* {success: false, error} with a reason.
C14_EnableInOrder ==
    [][/\ cli'.op = "enable" =>
             /\ cli'.pc = "subscribe" =>
                   (browser'.permission = "granted" /\ ~cli'.created /\ ~cli'.posted)
             /\ cli'.created => browser'.permission = "granted"
             /\ cli'.pc \in {"persist", "posted"} =>
                   (cli'.created /\ cli'.data = browser'.subscription
                    /\ cli'.data # NoSubscription)
             /\ cli'.posted => cli'.created
             /\ (cli'.pc = "done" /\ cli'.result # "ok") =>
                   (cli'.result = "fail" /\ cli'.error # None)
       /\ cli.op = "enable" =>
             /\ browser'.subscription # browser.subscription =>
                   (cli.pc = "subscribe" /\ browser.permission = "granted")
             /\ (\E r \in Reqs : sub[r].pc = "idle" /\ sub'[r].pc # "idle") =>
                   (cli.pc = "persist" /\ cli.created)]_vars

\* an enable whose prompt was dismissed has stopped before subscribing
C14_Witness ==
    /\ cli.op = "enable" /\ cli.pc = "done"
    /\ cli.prompted /\ browser.permission = "default"
    /\ cli.result = "fail" /\ cli.error # None
    /\ ~cli.created /\ ~cli.posted
    /\ browser.subscription = NoSubscription

\* the step on which an enable that has a subscription returns a failure
PersistFailed ==
    /\ cli.op = "enable" /\ cli.pc \in {"persist", "posted"}
    /\ cli'.pc = "done" /\ cli'.result = "fail"

\* C15 as stated: when the persist step of enable fails the subscription
\* stays, hasActiveSubscription answers true, and the server holds no record
\* for it.
C15_Original ==
    [][PersistFailed =>
          /\ browser'.subscription = cli.data
          /\ HasActiveSubscription(browser', FALSE)
          /\ ~\E x \in store' : x.endpoint = cli.data.endpoint]_vars

\* C15, amended: when the persist step of enable fails the platform
\* subscription it obtained is left in place (no step of enable
\* unsubscribes), so hasActiveSubscription answers true afterwards; a
\* subscribe request answered with an error has stored nothing, so the server
\* holds a record for it only if an earlier request stored one or the
\* handler answered 200 and the response did not reach the page.
C15_LeftInPlace ==
    [][/\ PersistFailed =>
             /\ browser'.subscription = cli.data
             /\ cli.data # NoSubscription
             /\ HasActiveSubscription(browser', FALSE)
       /\ (cli.op = "enable" /\ browser.subscription # NoSubscription) =>
             browser'.subscription = browser.subscription
       /\ \A r \in Reqs :
             (sub[r].pc \notin {"idle", "done"} /\ sub'[r].pc = "done"
              /\ sub'[r].status # 200) => store' = store]_vars

\* an enable has failed after posting, the subscription is there and the
\* table holds no row for it
C15_Witness ==
    /\ cli.op = "enable" /\ cli.pc = "done" /\ cli.result = "fail"
    /\ cli.created /\ cli.posted
    /\ browser.subscription = cli.data /\ cli.data # NoSubscription
    /\ ~\E x \in store : x.endpoint = cli.data.endpoint

\* the platform has a subscription and the table a row for the session's
\* user and the subscription's endpoint
Subscribed(b, rows) ==
    /\ HasActiveSubscription(b, FALSE)
    /\ \E x \in rows : x.user_id = b.session /\ x.endpoint = b.subscription.endpoint

\* a step on which a send deletes a row after a 410
Prunes ==
    \E s \in Sends : \E i \in RowIds(store) \ RowIds(store') :
        snd[s].outcome[i] = "gone410"

\* C16: enable returns success only when its POST was answered 200; from the
\* write of that request on, hasActiveSubscription answers true and the table
\* holds a row for the caller's user and the subscription's endpoint, until a
\* disable unsubscribes or a send prunes the row.
C16_EnabledUntilDisabledOrPruned ==
    [][/\ (cli.op = "enable" /\ cli.pc = "posted" /\ cli'.pc = "done"
           /\ cli'.result = "ok") =>
             /\ \E r \in Reqs : sub[r].pc = "done" /\ sub[r].status = 200
             /\ HasActiveSubscription(browser', FALSE)
       /\ \A r \in Reqs :
             (cli.op = "enable" /\ sub[r].pc = "write" /\ sub'[r].status = 200) =>
                Subscribed(browser', store')
       /\ (Subscribed(browser, store) /\ ~Subscribed(browser', store')) =>
             \/ cli.op = "disable" /\ browser'.subscription = NoSubscription
             \/ Prunes]_vars

\* enable has returned success and the row of its subscription is stored
C16_Witness ==
    /\ cli.op = "enable" /\ cli.pc = "done" /\ cli.result = "ok"
    /\ Subscribed(browser, store)

\* C17: enablePushNotifications, disablePushNotifications and
\* saveSubscriptionToServer never throw to their caller: every failure is
\* returned as {success: false, error} with a message.
C17_NeverThrows ==
    (cli.op \in {"enable", "disable", "persist"}) =>
        /\ cli.result # "thrown"
        /\ (cli.pc = "done" /\ cli.result # "ok") =>
              (cli.result = "fail" /\ cli.error # None)

\* an enable has returned the failure of pushManager.subscribe as a result
C17_Witness ==
    /\ cli.op = "enable" /\ cli.pc = "done"
    /\ cli.result = "fail" /\ cli.error = "subscribe-failed"

\* C18: a disable call unsubscribes at the platform only: none of its steps
\* changes the table or sends a request.  A row leaves the table only when a
\* send deletes it after a 410, and a send calls the gateway for every row its
\* query matched, whether or not the platform still has the subscription.
C18_DisableKeepsRecord ==
    [][/\ (cli'.op = "disable" /\ cli' # cli) => (store' = store /\ sub' = sub)
       /\ RowIds(store) \ RowIds(store') # {} => Prunes
       /\ \A s \in Sends :
             (snd[s].pc = "load" /\ snd'[s].pc = "map") => snd'[s].matched = store
       /\ \A s \in Sends :
             snd'[s].pc = "await" =>
                \A x \in snd'[s].matched : snd'[s].attempts[x.id] = 1]_vars

\* after a disable the row of the dropped subscription is stored and a send
\* is delivering to it
C18_Witness ==
    /\ cli.op = "disable" /\ cli.pc = "done" /\ cli.result = "ok"
    /\ cli.data # NoSubscription /\ browser.subscription = NoSubscription
    /\ \E x \in store :
          /\ x.endpoint = cli.data.endpoint
          /\ \E s \in Sends : snd[s].pc = "await" /\ snd[s].task[x.id] = "inflight"

\* C19: when the network attempt for an intercepted GET fails, the worker
\* looks the request up in the caches: with a match the requester gets the
\* cached response, without one it gets the error the network attempt
\* failed with.
C19_CacheFallback ==
    [][\A e \in Events :
          /\ (fev[e].pc = "network" /\ fev'[e].error # None) => fev'[e].pc = "cache"
          /\ (fev[e].pc = "cache" /\ fev'[e].pc = "done") =>
                /\ fev[e].method = "GET" /\ fev[e].error \in NetErrors
                /\ fev'[e].answer =
                      IF \E n \in CacheNames : <<n, fev[e].url>> \in sw.cache
                      THEN "cached-response" ELSE fev[e].error]_vars

\* of two failed GETs one was answered from the cache and the other with its
\* network error
C19_Witness ==
    \E e, f \in Events :
        /\ fev[e].pc = "done" /\ fev[e].intercepted /\ fev[e].error # None
        /\ fev[e].answer = "cached-response"
        /\ fev[f].pc = "done" /\ fev[f].intercepted /\ fev[f].error # None
        /\ fev[f].answer = fev[f].error

\* C20: the fetch handler is network-first and one-shot: a cache lookup is
\* made only after the network attempt has failed, and once; a network
\* response is passed on with no lookup; no step of a fetch event changes the
\* caches; a request that is not a GET is not intercepted.
C20_NetworkFirst ==
    [][\A e \in Events :
          /\ fev'[e].lookups # fev[e].lookups =>
                /\ fev[e].pc = "network" /\ fev'[e].error # None
                /\ fev[e].lookups = 0 /\ fev'[e].lookups = 1
          /\ (fev[e].pc = "network" /\ fev'[e].answer = "network-response") =>
                (fev'[e].pc = "done" /\ fev'[e].lookups = 0)
          /\ fev'[e] # fev[e] => sw' = sw
          /\ fev'[e].pc # "idle" =>
                (fev'[e].intercepted <=> fev'[e].method = "GET")
          /\ ~fev'[e].intercepted =>
                (fev'[e].lookups = 0 /\ fev'[e].pc \in {"idle", "default", "done"})]_vars

\* a GET was answered by the network although the cache holds its URL, and
\* a POST went past the worker
C20_Witness ==
    \E e, f \in Events :
        /\ fev[e].pc = "done" /\ fev[e].method = "GET"
        /\ fev[e].answer = "network-response" /\ fev[e].lookups = 0
        /\ <<CACHE_NAME, fev[e].url>> \in sw.cache
        /\ fev[f].pc = "done" /\ fev[f].method = "POST" /\ ~fev[f].intercepted

\* the notification the payload rules give: parsed fields with defaults for a
\* JSON body, the raw text as body for another body, the defaults for none
ClaimedNotification(data) ==
    CASE data.kind = "none" -> DefaultNotification
      [] data.kind = "text" -> [DefaultNotification EXCEPT !.body = data.text]
      [] OTHER -> [f \in DOMAIN DefaultNotification |->
                     Or(data.fields[f], DefaultNotification[f])]

\* C21: every push event that has been handled made exactly one
\* showNotification call and is held open by waitUntil exactly until that
\* call settles; with a JSON body the notification has the parsed fields, with
\* the defaults for the missing ones; with a body that is not JSON it has the
\* raw text as body and the default title, icon and tag; with no body it has
\* all the defaults.
C21_Original ==
    \A e \in Events :
       pev[e].pc # "idle" =>
          /\ pev[e].calls = 1
          /\ pev[e].held <=> pev[e].pc = "waiting"
          /\ pev[e].shown = ClaimedNotification(pev[e].data)

\* C22: every failure met while a push event or a notification click is
\* handled (a payload that cannot be read, a rejected showNotification,
\* matchAll, focus or openWindow) is caught by the worker and logged.
C22_Original ==
    /\ \A e \in Events : pev[e].raised \subseteq (pev[e].caught \cap pev[e].logged)
    /\ clk.raised \subseteq (clk.caught \cap clk.logged)

\* the windows matchAll resolved with whose url equals the target
Matches(c) == {i \in 1..Len(c.windows) : c.windows[i] = c.target}

InsertsSecond(r) ==
    /\ sub[r].pc = "write" /\ sub[r].existing = NoId
    /\ sub[r].token = sub[r].user
    /\ "lookup" \notin obs[r].faults
    /\ \E x \in RowsOf(store, sub[r].user, sub[r].endpoint) :
          <<x.p256dh, x.auth>> # <<sub[r].p256dh, sub[r].auth>>

\* C24: when two subscribe requests for one (userId, endpoint) with different
\* keys both find no record in their lookup, both are answered 200 and the one
\* stored record holds the keys of the request that wrote last.
C24_Original ==
    [][\A r \in Reqs :
          (InsertsSecond(r) /\ sub'[r].pc = "done") =>
             /\ sub'[r].status = 200
             /\ \A x \in RowsOf(store', sub[r].user, sub[r].endpoint) :
                   <<x.p256dh, x.auth>> = <<sub[r].p256dh, sub[r].auth>>]_vars

\* a base64url encoding of some bytes: characters of the URL-safe alphabet
\* only, no padding, a length that is not 1 modulo 4, and no bit set beyond
\* the last whole byte
ValidKey(x) ==
    LET n == Len(x)
    IN  /\ \A i \in 1..n : x[i] \in (0..61) \cup {Dash, Underscore}
        /\ n % 4 # 1
        /\ n % 4 = 2 => ToStandard(x)[n] % 16 = 0
        /\ n % 4 = 3 => ToStandard(x)[n] % 4 = 0

\* C25: urlBase64ToUint8Array gives atob its input with '-' and '_' replaced
\* and filled with '=' to a length that is a multiple of 4; for a valid
\* base64url key string x the decoding succeeds, and encoding the decoded
\* bytes with btoa gives x again, up to that substitution and that padding,
\* which decodes to the same bytes.
C25_RoundTrip ==
    /\ codec.pc # "input" =>
          /\ Len(codec.base64) % 4 = 0
          /\ \E k \in 0..3 :
                /\ Len(codec.base64) = Len(codec.x) + k
                /\ \A i \in 1..k : codec.base64[Len(codec.x) + i] = Pad
          /\ \A i \in 1..Len(codec.x) :
                codec.base64[i] = (CASE codec.x[i] = Dash -> Plus
                                     [] codec.x[i] = Underscore -> Slash
                                     [] OTHER -> codec.x[i])
    /\ ValidKey(codec.x) =>
          /\ codec.pc # "threw"
          /\ codec.pc = "encoded" =>
                /\ codec.out = codec.base64
                /\ ~AtobThrows(codec.out)
                /\ AtobBytes(codec.out) = codec.bytes

\* a key of three characters, two of them URL-safe ones, has come back from
\* the encoder with one '=' added
C25_Witness ==
    /\ codec.pc = "encoded"
    /\ codec.x = <<Dash, Underscore, 16>>
    /\ codec.bytes = <<251, 244>>
    /\ codec.out = <<Plus, Slash, 16, Pad>>

\* a send returns; what its answer says of success, sent and failed; and what
\* sendPushNotificationServer returns at the point where the send returns
Returns(s) == snd[s].pc # "done" /\ snd'[s].pc = "done"
Report(res) == <<res.success, res.sent, res.failed>>
LibReturn(s) ==
    IF snd[s].pc = "await"
    THEN CountResult("lib", snd[s].outcome, RowIds(snd[s].matched))
    ELSE IF snd'[s].queried = "empty" THEN EmptyResult("lib")
    ELSE ErrorResult("lib", 500)

\* the endpoint could not parse the body of the request
BodyUnparsed(s) ==
    /\ snd[s].pc = "idle" /\ snd'[s].res.status = 500
    /\ vapidConfigured /\ serviceKeyConfigured

\* C26 as stated: once the secret matches, the endpoint answers with the
\* success, sent and failed values that sendPushNotificationServer returns
\* for the same payload, store and gateway outcomes.
C26_Original ==
    [][\A s \in Sends :
          (Returns(s) /\ snd'[s].hdr = "right" /\ ~BodyUnparsed(s)) =>
             Report(snd'[s].res) = Report(LibReturn(s))]_vars

\* C26, amended: whichever of the two runs, the same subscriptions are
\* loaded, one gateway call is made for each of them, and exactly the rows
\* whose call failed with 410 are deleted; when at least one subscription was
\* loaded both report success = true and the same sent and failed.  With no
\* subscription the function returns {success: true, sent: 0, failed: 0} and
\* the endpoint answers sent: 0 with no success and no failed; on an error
\* the function returns {success: false, sent: 0, failed: 0} and the
\* endpoint's answer carries none of the three.
C26_SameWork ==
    [][\A s \in Sends :
          CASE snd[s].pc = "load" ->
                /\ snd'[s].pc = "map" => snd'[s].matched = Matching(store, snd[s].userId)
                /\ snd'[s].pc = "done" =>
                      Report(snd'[s].res) =
                         (IF snd'[s].queried = "empty"
                          THEN (IF snd'[s].via = "endpoint"
                                THEN <<"absent", 0, Absent>> ELSE <<"true", 0, 0>>)
                          ELSE (IF snd'[s].via = "endpoint"
                                THEN <<"absent", Absent, Absent>> ELSE <<"false", 0, 0>>))
            [] snd[s].pc = "map" ->
                snd'[s].pc = "await" =>
                   \A i \in Ids :
                      snd'[s].attempts[i] =
                         snd[s].attempts[i] + (IF i \in RowIds(snd[s].matched) THEN 1 ELSE 0)
            [] snd[s].pc = "await" ->
                /\ snd'[s].del # snd[s].del =>
                      \A i \in Ids :
                         snd'[s].del[i] # snd[s].del[i] =>
                            /\ snd[s].outcome[i] = "gone410"
                            /\ snd'[s].del[i] = "ok" => store' = DeleteRows(store, i)
                            /\ snd'[s].del[i] # "ok" => store' = store
                /\ snd'[s].pc = "done" =>
                      /\ RowIds(snd[s].matched) # {}
                      /\ snd'[s].res.success = "true"
                      /\ Report(snd'[s].res) =
                            Report(CountResult("lib", snd[s].outcome, RowIds(snd[s].matched)))
                      /\ Report(snd'[s].res) =
                            Report(CountResult("endpoint", snd[s].outcome,
                                               RowIds(snd[s].matched)))
            [] snd[s].pc = "idle" ->
                snd'[s].pc = "done" =>
                   Report(snd'[s].res) = (IF snd'[s].via = "endpoint"
                                          THEN <<"absent", Absent, Absent>>
                                          ELSE <<"false", 0, 0>>)
            [] OTHER -> TRUE]_vars

\* sendPushNotificationServer has returned from a run over two subscriptions:
\* one was delivered, the other answered 410 and its row is gone
C26_Witness ==
    \E s \in Sends :
        /\ snd[s].pc = "done" /\ snd[s].queried = "rows" /\ snd[s].via = "lib"
        /\ snd[s].res.success = "true"
        /\ snd[s].res.sent = 1 /\ snd[s].res.failed = 1
        /\ nextId = 2 /\ Cardinality(store) = 1

\* C28: a send that has loaded at least one subscription reports
\* success = true whatever the outcomes of its gateway calls, also when all
\* of them fail; success = false is returned only when the VAPID keys are
\* missing, the title or the body is missing, or the subscriptions could not
\* be loaded (the query reports an error, or the service-role client it
\* needs cannot be created).
C28_SuccessFlag ==
    [][\A s \in Sends :
          /\ (Returns(s) /\ snd[s].pc = "await") =>
                /\ RowIds(snd[s].matched) # {}
                /\ snd'[s].res.success = "true"
          /\ (Returns(s) /\ snd'[s].res.success = "false") =>
                \/ snd[s].pc = "load" /\ snd'[s].queried = "error"
                \/ /\ snd[s].pc = "idle"
                   /\ \A c \in SendCalls :
                         snd'[s] = SendEntry(c, vapidConfigured, serviceKeyConfigured) =>
                            \/ ~vapidConfigured
                            \/ ~c.title \/ ~c.body
                            \/ ~serviceKeyConfigured]_vars

\* a send over two subscriptions has returned success = true with nothing
\* delivered
C28_Witness ==
    \E s \in Sends :
        /\ snd[s].pc = "done" /\ snd[s].queried = "rows"
        /\ snd[s].res.success = "true"
        /\ snd[s].res.sent = 0 /\ snd[s].res.failed = 2

\* C27: a subscribe request writes only rows of the user getServerUser found
\* for it: the row it inserts or updates carries that user_id, and the rows of
\* every other user are left as they were, also those with the same endpoint.
C27_OwnRowsOnly ==
    [][\A r \in Reqs :
          (sub[r].pc = "write" /\ sub'[r].pc = "done") =>
             /\ sub[r].user \in Users
             /\ \A x \in (store' \ store) \cup (store \ store') :
                   x.user_id = sub[r].user
             /\ {x \in store' : x.user_id # sub[r].user} =
                   {x \in store : x.user_id # sub[r].user}
             /\ sub'[r].status = 200 =>
                   \E x \in store' :
                      /\ x.user_id = sub[r].user /\ x.endpoint = sub[r].endpoint
                      /\ sub[r].token = x.user_id]_vars

\* two users have stored the same endpoint, each under a row of their own
C27_Witness ==
    /\ \A r \in Reqs : sub[r].pc = "done" /\ sub[r].status = 200
    /\ \E x, y \in store :
          /\ x.user_id = "u1" /\ y.user_id = "u2"
          /\ x.endpoint = y.endpoint
          /\ <<x.p256dh, x.auth>> # <<y.p256dh, y.auth>>

\* C29: once loadState has set the flag, whenever no enable or disable is
\* under way (isLoading is false) isSubscribed is true exactly when the
\* platform holds a push subscription.
C29_Original ==
    (ui.load \in {"key", "done"} /\ ui.isSupported /\ ~ui.isLoading) =>
       (ui.isSubscribed <=> browser.subscription # NoSubscription)

\* C30: when every loadVisitas call made has finished and the one started
\* last has set the list, the list held in state is what that call read.
C30_Original ==
    \A c \in Loads :
       (/\ \A d \in Loads : dash.load[d].pc \in {"idle", "done"}
        /\ dash.load[c].seq = dash.started
        /\ dash.load[c].set) =>
          dash.visitas = dash.load[c].data
====
